---- MODULE Spec2Model ----
(***************************************************************************)
(* A model of the crawl dashboard: the CrawlEngine (engine.ts), the App's  *)
(* flush coordinator (app.tsx) and the indexability classifier             *)
(* (extractor.ts).  Each action is one handler of the program, run from    *)
(* one await point to the next.                                            *)
(***************************************************************************)
EXTENDS Integers, Sequences, FiniteSets, TLC

\* ------------------------------------------------------------------------
\* Bounds of the model
\* ------------------------------------------------------------------------
\* page records one engine produces
MaxPages == 3
\* failed fetches that are counted as errors
MaxErrors == 2
\* the last clock value (milliseconds are counted in clock steps)
MaxTime == 4
\* page records and counted errors where every kind of response is modelled
MaxCountPages == 2
MaxCountErrors == 1
\* page records produced while the clock is modelled
MaxTimedPages == 1

VARIABLES
    \* ---- CrawlEngine fields
    crawler,        \* "null" or "live": the CheerioCrawler the engine holds
    statsInterval,  \* TRUE while the 500 ms stats timer is registered
    pages,          \* the engine's page list
    isRunning,
    isPaused,       \* the field _isPaused
    pausedAt,
    stats,          \* the CrawlStats record
    \* ---- the external scheduler (Crawlee's autoscaled pool) and the clock
    pool,           \* "idle", "running", "paused", "aborted", "finished"
    signal,         \* the call the last engine operation made on the scheduler
    now,            \* Date.now()
    \* ---- positions of the engine's async functions
    startPc,        \* start(): "new", "awaitRun", "done", "rejected"
    stopPc,         \* a stop() past its guard: "idle", "teardown"
    tickPc,         \* a stats tick: "idle", "awaitQueue"
    \* ---- App state
    state,          \* 'prompting' | 'crawling' | 'finished'
    pageBuffer,     \* pageBuffer.current
    appPages,       \* the pages state the table renders
    pagesUpdates,   \* setPages updaters queued by React, oldest first
    flushInterval,  \* flushIntervalRef.current is a live timer
    uiPaused,       \* the isPaused state of the App
    uiStats,        \* the stats state of the App: the last snapshot delivered
    engineRef,      \* engineRef.current holds the engine
    mounted,        \* the App is mounted (exit() has not been called)
    \* ---- what the callbacks and the clock have been seen to do
    completeCalls,  \* how often onCrawlComplete was invoked
    errorCalls,     \* the arguments of every onCrawlError call
    pageCalls,      \* how often onPageCrawled was invoked
    abortCalled,    \* abort() has been called on the engine
    pausedTotal,    \* clock steps that passed while _isPaused was set
    snapAt,         \* clock value at the last snapshot delivery, 0 if none
    snapInPause,    \* the last snapshot was delivered during the current pause
    logCalls,       \* how often onLogMessage was invoked by stop()
    handled,        \* <<resp>>: the response the last requestHandler run was given
    seoTrace,       \* the checks extractSeoData evaluated for it, <<>> if not called
    snapMaps,       \* what the two maps of the last snapshot held when it was delivered
    \* ---- the target URL (App) and the Prompt
    targetUrl,      \* the targetUrl state: NoUrl or the text of a URL
    promptError,    \* the Prompt shows an error message
    \* ---- Table state and props
    selectedRowIndex,
    columnOffset,
    scrollOffset,
    autoFollow,
    pagesLength,    \* pages.length of the pages prop
    terminalWidth,
    availableHeight,
    isFocused,
    scrollDeps,     \* the dependencies the scroll effect last ran with
    followDeps,     \* the dependencies the auto-follow effect last ran with
    \* ---- computeScrollbar, called on its own
    scrollbarParams,  \* the params of the last call, NoCall before any
    scrollbarResult,  \* what it returned
    \* ---- the pointer decoder and useMouse
    mouseData,        \* the last chunk of input decoded, NoCall before any
    mouseEvent,       \* what parseMouseEvent returned for it
    delivered,         \* what useMouse passed to onMouseEvent for it, empty if nothing
    \* ---- normalizeUrl and validateUrl, called on their own
    urlCall,          \* the function and input of the last call, NoCall before any
    urlResult,         \* what it returned, or that it threw
    \* ---- the debug logger (debug-logger.ts)
    fd,               \* the module variable fd: "null" or the descriptor of the open log file
    currentLevel,     \* the module variable currentLevel
    logFile,          \* the file system: descriptors opened and closed, writeSync calls
    lastCall,         \* the last call of the module: what it did and returned
    session,          \* the level of the successful initDebugLog not yet closed, "none" if none
    loggerCalls,       \* the number of calls so far
    \* ---- the options panel (Options.tsx)
    options,          \* the options prop the panel was opened with
    currentOptions,   \* the currentOptions state
    selectedIndex,    \* the selectedIndex state, from 0
    isEditing,        \* the isEditing state
    editBuffer,       \* the editBuffer state, a sequence of characters
    onCloseCalls,     \* the arguments of the onClose calls so far
    lastKey,          \* the last key press the panel handled, NoCall before any
    keyCount,         \* the number of key presses so far
    \* ---- the App's options state and the engine effect's dependency on it
    optionsOpen,      \* App's optionsOpen state: the options panel is rendered
    appOptions,       \* identity of the object held in App's options state, counted from 0
    effectOptions,    \* the options identity the engine effect last ran with
    engineRestarts,    \* times the engine effect ran again and constructed another CrawlEngine
    \* ---- the status bar under the pointer (App.handleMouse)
    barReport,        \* the pointer report last handled on the status-bar path, NoCall before any
    barFired,         \* the status-bar actions that report fired
    consoleOpen,      \* App's consoleOpen state
    exportCalls       \* calls of exportResults so far

engineVars == <<crawler, statsInterval, pages, isRunning, isPaused, pausedAt, stats>>
envVars == <<pool, signal, now>>
pcVars == <<startPc, stopPc, tickPc>>
appVars == <<state, pageBuffer, appPages, pagesUpdates, flushInterval, uiPaused, uiStats,
             engineRef, mounted>>
obsVars == <<completeCalls, errorCalls, pageCalls, abortCalled, pausedTotal, snapAt,
             snapInPause, logCalls, handled, seoTrace, snapMaps>>
promptVars == <<targetUrl, promptError>>
tableVars == <<selectedRowIndex, columnOffset, scrollOffset, autoFollow, pagesLength,
               terminalWidth, availableHeight, isFocused, scrollDeps, followDeps>>
scrollbarVars == <<scrollbarParams, scrollbarResult>>
mouseVars == <<mouseData, mouseEvent, delivered>>
urlVars == <<urlCall, urlResult>>
loggerVars == <<fd, currentLevel, logFile, lastCall, session, loggerCalls>>
optionsVars == <<options, currentOptions, selectedIndex, isEditing, editBuffer, onCloseCalls,
                 lastKey, keyCount>>
panelVars == <<optionsOpen, appOptions, effectOptions, engineRestarts>>
barVars == <<barReport, barFired, consoleOpen, exportCalls>>
auxVars == <<scrollbarVars, mouseVars, urlVars, loggerVars, optionsVars, panelVars, barVars>>
\* the App, the engine and the table
programVars == <<engineVars, envVars, pcVars, appVars, obsVars, promptVars, tableVars>>
\* everything but the variables of one function or module
besidesScrollbar == <<programVars, mouseVars, urlVars, loggerVars, optionsVars,
                  panelVars, barVars>>
besidesMouse == <<engineVars, envVars, pcVars, appVars, obsVars, promptVars, scrollbarVars,
                  urlVars, loggerVars, optionsVars, panelVars, barVars>>
besidesUrl == <<programVars, scrollbarVars, mouseVars, loggerVars, optionsVars,
                  panelVars, barVars>>
besidesLogger == <<programVars, scrollbarVars, mouseVars, urlVars, optionsVars,
                  panelVars, barVars>>
besidesOptions == <<programVars, scrollbarVars, mouseVars, urlVars, loggerVars,
                  panelVars, barVars>>
besidesPanel == <<programVars, scrollbarVars, mouseVars, urlVars, loggerVars, optionsVars,
                  barVars>>
besidesBar == <<programVars, scrollbarVars, mouseVars, urlVars, loggerVars, optionsVars, panelVars>>
vars == <<engineVars, envVars, pcVars, appVars, obsVars, promptVars, tableVars, auxVars>>

\* ------------------------------------------------------------------------
\* Strings of the program, as token sequences
\* ------------------------------------------------------------------------
\* String.prototype.toLowerCase on the tokens a robots directive is made of
toLowerCase(tok) ==
    CASE tok = "NOINDEX" -> "noindex"
      [] tok = "NoIndex" -> "noindex"
      [] tok = "NOFOLLOW" -> "nofollow"
      [] OTHER -> tok

\* s.includes('noindex') for a directive string s given as its tokens; the
\* tokens are separated by ", " so a match never spans two of them
includesNoindex(s) == \E i \in 1..Len(s) : s[i] = "noindex"

lowerAll(s) == [i \in 1..Len(s) |-> toLowerCase(s[i])]

\* Array.prototype.join(',') of directive strings: one string holding the
\* tokens of all of them
RECURSIVE joinComma(_)
joinComma(arr) == IF arr = <<>> THEN <<>> ELSE Head(arr) \o joinComma(Tail(arr))

\* contentType.includes('text/html') || contentType.includes('application/xhtml')
isHtmlType(ct) ==
    ct \in {"text/html", "text/html; charset=utf-8", "application/xhtml+xml"}

\* contentType.split(';')[0].trim()
mimeTypeOf(ct) == IF ct = "text/html; charset=utf-8" THEN "text/html" ELSE ct

\* `${Math.floor(statusCode / 100)}xx`, as the hundreds digit
statusCategory(code) == code \div 100

\* ------------------------------------------------------------------------
\* URLs: [valid, abs, origin, path, slash, hash].  path is the sequence of
\* path segments, slash a trailing '/', hash a '#fragment'.
\* ------------------------------------------------------------------------
Url(origin, path, slash, hash) ==
    [valid |-> TRUE, abs |-> TRUE, origin |-> origin, path |-> path,
     slash |-> slash, hash |-> hash]

RelUrl(path, slash, hash) ==
    [valid |-> TRUE, abs |-> FALSE, origin |-> "", path |-> path,
     slash |-> slash, hash |-> hash]

BadUrl == [valid |-> FALSE, abs |-> TRUE, origin |-> "http://", path |-> <<>>,
           slash |-> FALSE, hash |-> FALSE]

\* the baseUrl argument left out (undefined)
NoBase == [valid |-> FALSE, abs |-> FALSE, origin |-> "", path |-> <<>>,
           slash |-> FALSE, hash |-> FALSE]

\* new URL(url, base).href: a relative reference takes the base's origin; an
\* empty path is serialised as "/"
parseUrl(url, base) ==
    [valid |-> TRUE, abs |-> TRUE,
     origin |-> IF url.abs THEN url.origin ELSE base.origin,
     path |-> url.path,
     slash |-> IF url.path = <<>> THEN TRUE ELSE url.slash,
     hash |-> url.hash]

\* extractor.ts normalizeUrl(url, baseUrl): drop the fragment, drop a trailing
\* slash unless the path is the root; a string URL() rejects comes back as is
normalizeUrlCmp(url, base) ==
    IF ~url.valid \/ (~url.abs /\ base = NoBase)
    THEN url
    ELSE LET parsed == [parseUrl(url, base) EXCEPT !.hash = FALSE]
         IN  IF parsed.slash /\ parsed.path # <<>>
             THEN [parsed EXCEPT !.slash = FALSE]
             ELSE parsed

\* ------------------------------------------------------------------------
\* extractSeoData: the indexability checks (extractor.ts)
\* ------------------------------------------------------------------------
\* `HTTP ${statusCode}`
httpReason(code) ==
    CASE code = 404 -> "HTTP 404"
      [] code = 400 -> "HTTP 400"
      [] code = 500 -> "HTTP 500"
      [] OTHER -> "HTTP other"

\* $('meta[name="robots"]').attr('content')?.toLowerCase() || ''
robotsMetaOf(resp) ==
    IF resp.robotsMeta.kind = "undefined" THEN <<>>
    ELSE lowerAll(resp.robotsMeta.value)

\* Array.isArray(xRobotsTag) ? xRobotsTag.join(',') : (xRobotsTag || '')
xRobotsValueOf(resp) ==
    IF resp.xRobotsTag.kind = "array" THEN joinComma(resp.xRobotsTag.value)
    ELSE IF resp.xRobotsTag.kind = "string" THEN resp.xRobotsTag.value
    ELSE <<>>

\* response.statusCode || 200
statusCodeOf(resp) == IF resp.statusCode = 0 THEN 200 ELSE resp.statusCode

\* response.headers['content-type'] || 'text/html'
contentTypeOf(resp) ==
    IF resp.contentType = "undefined" THEN "text/html" ELSE resp.contentType

\* The state the checks thread through: isIndexable, indexabilityReason, and
\* the checks whose condition was evaluated, in order.
seoStart == [isIndexable |-> TRUE, indexabilityReason |-> "null", checks |-> <<>>]

\* Check 1: noindex meta tag (unconditional)
check1(s, resp) ==
    IF includesNoindex(robotsMetaOf(resp))
    THEN [isIndexable |-> FALSE, indexabilityReason |-> "noindex meta tag",
          checks |-> Append(s.checks, 1)]
    ELSE [s EXCEPT !.checks = Append(s.checks, 1)]

\* Check 2: X-Robots-Tag header, under if (isIndexable)
check2(s, resp) ==
    IF ~s.isIndexable THEN s
    ELSE IF includesNoindex(lowerAll(xRobotsValueOf(resp)))
    THEN [isIndexable |-> FALSE, indexabilityReason |-> "X-Robots-Tag noindex",
          checks |-> Append(s.checks, 2)]
    ELSE [s EXCEPT !.checks = Append(s.checks, 2)]

\* Check 3: canonical mismatch, under if (isIndexable) and if (canonicalUrl)
check3(s, resp) ==
    IF ~s.isIndexable THEN s
    ELSE IF resp.canonical.kind \in {"undefined", "empty"}
    THEN [s EXCEPT !.checks = Append(s.checks, 3)]
    ELSE IF normalizeUrlCmp(resp.canonical.value, resp.url)
                # normalizeUrlCmp(resp.url, NoBase)
    THEN [isIndexable |-> FALSE, indexabilityReason |-> "canonical mismatch",
          checks |-> Append(s.checks, 3)]
    ELSE [s EXCEPT !.checks = Append(s.checks, 3)]

\* Check 4 without the isIndexable guard: if (statusCode >= 400)
check4Unguarded(s, resp) ==
    IF statusCodeOf(resp) >= 400
    THEN [isIndexable |-> FALSE, indexabilityReason |-> httpReason(statusCodeOf(resp)),
          checks |-> Append(s.checks, 4)]
    ELSE [s EXCEPT !.checks = Append(s.checks, 4)]

\* Check 4: if (isIndexable && (statusCode >= 400))
check4(s, resp) ==
    IF ~s.isIndexable THEN s
    ELSE IF statusCodeOf(resp) >= 400
    THEN [isIndexable |-> FALSE, indexabilityReason |-> httpReason(statusCodeOf(resp)),
          checks |-> Append(s.checks, 4)]
    ELSE [s EXCEPT !.checks = Append(s.checks, 4)]

extractSeoData(resp) ==
    LET s == check4(check3(check2(check1(seoStart, resp), resp), resp), resp)
    IN  [isIndexable |-> s.isIndexable,
         indexabilityReason |-> s.indexabilityReason,
         contentType |-> contentTypeOf(resp),
         statusCode |-> statusCodeOf(resp),
         checks |-> s.checks]

\* ------------------------------------------------------------------------
\* Inputs: what the scheduler hands to requestHandler and failedRequestHandler
\* ------------------------------------------------------------------------
Undefined == [kind |-> "undefined", value |-> <<>>]
Str(v) == [kind |-> "string", value |-> v]
Arr(v) == [kind |-> "array", value |-> v]
Href(u) == [kind |-> "url", value |-> u]
NoHref == [kind |-> "undefined", value |-> NoBase]
EmptyHref == [kind |-> "empty", value |-> NoBase]

PageUrls == {Url("a", <<>>, TRUE, FALSE), Url("a", <<"p">>, FALSE, FALSE),
             Url("a", <<"p">>, TRUE, FALSE)}

RobotsMetas == {Undefined, Str(<<"noindex">>), Str(<<"NOINDEX", "nofollow">>),
                Str(<<"index", "follow">>)}

XRobotsTags == {Undefined, Str(<<"noindex">>), Str(<<"all">>),
                Arr(<< <<"nofollow">>, <<"NoIndex">> >>), Arr(<< <<"all">> >>)}

Canonicals == {NoHref, EmptyHref,
               Href(Url("a", <<"p">>, FALSE, FALSE)), Href(Url("a", <<"p">>, TRUE, FALSE)),
               Href(Url("a", <<"p">>, FALSE, TRUE)), Href(Url("a", <<>>, FALSE, FALSE)),
               Href(Url("b", <<"p">>, FALSE, FALSE)), Href(RelUrl(<<"p">>, FALSE, FALSE)),
               Href(BadUrl)}

\* 0 stands for a response without a status code
StatusCodes == {0, 200, 301, 399, 400, 404, 500}

ContentTypes == {"undefined", "text/html", "text/html; charset=utf-8",
                 "application/xhtml+xml", "application/json", "application/pdf"}

Response(url, code, ct, dollar, meta, header, canonical) ==
    [url |-> url, statusCode |-> code, contentType |-> ct, hasDollar |-> dollar,
     robotsMeta |-> meta, xRobotsTag |-> header, canonical |-> canonical,
     responseTimeMs |-> 1]

AllResponses ==
    {Response(u, c, ct, d, m, h, k) :
        u \in PageUrls, c \in StatusCodes, ct \in ContentTypes, d \in BOOLEAN,
        m \in RobotsMetas, h \in XRobotsTags, k \in Canonicals}

\* one response of each kind the engine treats differently
SampleResponses ==
    {Response(Url("a", <<"p">>, FALSE, FALSE), 200, "text/html", TRUE, Undefined, Undefined, NoHref),
     Response(Url("a", <<"p">>, FALSE, FALSE), 200, "text/html; charset=utf-8", TRUE,
              Str(<<"noindex">>), Undefined, NoHref),
     Response(Url("a", <<"p">>, FALSE, FALSE), 404, "text/html", TRUE, Undefined, Undefined, NoHref),
     Response(Url("a", <<"p">>, FALSE, FALSE), 200, "application/json", FALSE, Undefined,
              Undefined, NoHref)}

\* a single response, where the kind of page makes no difference
OneResponse ==
    {Response(Url("a", <<"p">>, FALSE, FALSE), 200, "text/html", TRUE, Undefined, Undefined, NoHref)}

\* error messages, as their words; "," is a comma written right after a word
MimeRejection(ct) ==
    <<"Resource", "served", "Content-Type", ct, ",", "but", "only", "text/html", "are",
      "allowed.">>

ErrorMessages ==
    {MimeRejection("application/pdf"),
     <<"Resource", "served", "Content-Type", "text/plain;", "charset=utf-8", ",", "but",
       "only", "text/html", "are", "allowed.">>,
     <<"Resource", "served", "Content-Type", "image/png", ",", "which", "is", "not",
       "allowed.">>,
     <<"Navigation", "timed", "out">>}

SampleErrors == {MimeRejection("application/pdf"), <<"Navigation", "timed", "out">>}

\* queueInfo?.pendingRequestCount || 0
PendingCounts == {0, 1}

StatusClasses == {2, 3, 4, 5}
MimeTypes == {"text/html", "application/xhtml+xml", "application/json", "application/pdf",
              "image/png"}

\* errorMessage.match(/served Content-Type (\S+),.*only .* are allowed/): the
\* captured group in a one-element sequence, <<>> when there is no match
mimeMatch(msg) ==
    LET hits == {i \in 1..Len(msg) :
                    /\ i + 3 <= Len(msg)
                    /\ msg[i] = "served"
                    /\ msg[i + 1] = "Content-Type"
                    /\ msg[i + 2] # ","
                    /\ msg[i + 3] = ","
                    /\ \E j \in (i + 4)..Len(msg) : \E k \in (j + 2)..Len(msg) :
                          /\ msg[j] = "only"
                          /\ k + 1 <= Len(msg)
                          /\ msg[k] = "are"
                          /\ msg[k + 1] \in {"allowed", "allowed."}}
    IN  IF hits = {} THEN <<>>
        ELSE LET i == CHOOSE x \in hits : \A y \in hits : x <= y IN <<msg[i + 2]>>

\* ------------------------------------------------------------------------
\* The App's callbacks (app.tsx), as seen from inside an engine action
\* ------------------------------------------------------------------------
\* onPageCrawled: push to the buffer, not to state
onPageCrawled(page) ==
    /\ pageBuffer' = Append(pageBuffer, page)
    /\ pageCalls' = pageCalls + 1

\* a completion handler that leaves the flush timer running
onCrawlCompleteKeepTimer ==
    /\ flushInterval' = flushInterval
    /\ pageBuffer' = <<>>
    /\ pagesUpdates' = IF Len(pageBuffer) > 0 THEN Append(pagesUpdates, pageBuffer)
                       ELSE pagesUpdates
    /\ uiPaused' = FALSE
    /\ state' = "finished"
    /\ completeCalls' = completeCalls + 1

\* onCrawlComplete: clear the flush timer, flush what remains, finish
onCrawlComplete ==
    /\ flushInterval' = FALSE
    /\ pageBuffer' = <<>>
    /\ pagesUpdates' = IF Len(pageBuffer) > 0 THEN Append(pagesUpdates, pageBuffer)
                       ELSE pagesUpdates
    /\ uiPaused' = FALSE
    /\ state' = "finished"
    /\ completeCalls' = completeCalls + 1

completeVars == <<flushInterval, pageBuffer, pagesUpdates, uiPaused, state, completeCalls>>

\* the tail of stop(): the completion callback only if pages were processed
completeIfPages ==
    IF Len(pages) > 0 \/ stats.pagesCrawled > 0
    THEN onCrawlComplete
    ELSE UNCHANGED completeVars

\* ------------------------------------------------------------------------
\* Target URLs (utils.ts)
\* ------------------------------------------------------------------------
\* the text of a URL: surrounding whitespace, scheme ("none" when there is
\* none), host name, port ("" when there is none), path segments (an empty
\* segment stands for two slashes in a row), trailing slash, query string and
\* fragment
UrlFull(ws, scheme, host, port, path, slash, search, hash) ==
    [kind |-> "string", ws |-> ws, scheme |-> scheme, host |-> host, port |-> port,
     path |-> path, slash |-> slash, search |-> search, hash |-> hash]

\* a URL text without port, query string and fragment
UrlText(ws, scheme, host, path, slash) == UrlFull(ws, scheme, host, "", path, slash, "", "")

\* no URL: cli.input[0] is undefined
NoUrl == [kind |-> "undefined", ws |-> FALSE, scheme |-> "none", host |-> "", port |-> "",
          path |-> <<>>, slash |-> FALSE, search |-> "", hash |-> ""]

\* the characters of the host names used: ASCII letters and digits in runs,
\* and a letter outside ASCII
hostChars(host) ==
    CASE host = "" -> <<>>
      [] host = "example.com" -> <<"alnum", ".", "alnum">>
      [] host = "my-site.example.com" -> <<"alnum", "-", "alnum", ".", "alnum", ".", "alnum">>
      [] host = "exa_mple.com" -> <<"alnum", "_", "alnum", ".", "alnum">>
      [] host = "example site.com" -> <<"alnum", " ", "alnum", ".", "alnum">>
      [] host = "b(u-umlaut)cher.example" -> <<"alnum", "letter", "alnum", ".", "alnum">>
      [] host = "xn--bcher-kva.example" -> <<"alnum", "-", "-", "alnum", "-", "alnum", ".", "alnum">>
      [] host = "ftp" -> <<"alnum">>

\* the WHATWG host parser: no host, or a forbidden code point, fails; a label
\* with letters outside ASCII is converted to its xn-- form
hostParses(host) == host # "" /\ \A i \in 1..Len(hostChars(host)) : hostChars(host)[i] # " "
domainToASCII(host) == IF host = "b(u-umlaut)cher.example" THEN "xn--bcher-kva.example" ELSE host

\* hostname.match(/^[a-zA-Z0-9.-]+$/)
hostnameMatches(hostname) ==
    /\ hostname # ""
    /\ \A i \in 1..Len(hostChars(hostname)) : hostChars(hostname)[i] \in {"alnum", ".", "-"}

\* the default port of a scheme, which the URL serializer leaves out
defaultPort(scheme) == IF scheme = "https" THEN "443" ELSE "80"

\* 'https://' + url for a text without an http(s) scheme: a text without any
\* scheme gets one; in a text with another scheme, that scheme becomes the
\* host (its colon an empty port) and "//host" the start of the path
prependHttps(url) ==
    IF url.scheme = "none" THEN [url EXCEPT !.scheme = "https"]
    ELSE [url EXCEPT !.scheme = "https", !.host = url.scheme, !.port = "",
                     !.path = <<"", url.host>> \o url.path]

\* new URL(url): [ok |-> FALSE] where it throws
newURL(url) ==
    IF ~hostParses(url.host) THEN [ok |-> FALSE, url |-> NoUrl]
    ELSE [ok |-> TRUE,
          url |-> [url EXCEPT !.host = domainToASCII(url.host),
                              !.port = IF url.port = defaultPort(url.scheme) THEN ""
                                       ELSE url.port,
                              !.slash = IF url.path = <<>> THEN TRUE ELSE url.slash]]

\* parsed.pathname = parsed.pathname.slice(0, -1)
sliceLastSlash(parsed) ==
    IF parsed.path[Len(parsed.path)] = ""
    THEN [parsed EXCEPT !.path = SubSeq(parsed.path, 1, Len(parsed.path) - 1)]
    ELSE [parsed EXCEPT !.slash = FALSE]

\* utils.ts normalizeUrl with every trailing slash of the path removed
normalizeUrlAllSlashes(input) ==
    LET trimmed == [input EXCEPT !.ws = FALSE]
        url == IF trimmed.scheme \in {"http", "https"} THEN trimmed ELSE prependHttps(trimmed)
        parsed == newURL(url)
    IN  IF ~parsed.ok \/ ~hostnameMatches(parsed.url.host)
        THEN [ok |-> FALSE, href |-> NoUrl]
        ELSE [ok |-> TRUE,
              href |-> IF parsed.url.slash /\ parsed.url.path # <<>>
                       THEN [parsed.url EXCEPT !.slash = FALSE,
                               !.path = SelectSeq(parsed.url.path, LAMBDA seg : seg # "")]
                       ELSE parsed.url]

\* utils.ts normalizeUrl: [ok |-> FALSE] where it throws
normalizeUrl(input) ==
    LET trimmed == [input EXCEPT !.ws = FALSE]
        url == IF trimmed.scheme \in {"http", "https"} THEN trimmed ELSE prependHttps(trimmed)
        parsed == newURL(url)
    IN  IF ~parsed.ok \/ ~hostnameMatches(parsed.url.host)
        THEN [ok |-> FALSE, href |-> NoUrl]
        ELSE [ok |-> TRUE,
              href |-> IF parsed.url.slash /\ parsed.url.path # <<>>
                       THEN sliceLastSlash(parsed.url)
                       ELSE parsed.url]

\* utils.ts validateUrl
validateUrl(input) == [valid |-> normalizeUrl(input).ok]

\* ------------------------------------------------------------------------
\* CrawlEngine (engine.ts)
\* ------------------------------------------------------------------------
initialStats ==
    [pagesCrawled |-> 0, pagesInQueue |-> 0, errors |-> 0, startTime |-> 0,
     uniqueUrlsFound |-> 0, indexableCount |-> 0, nonIndexableCount |-> 0,
     statusCodes |-> [c \in StatusClasses |-> 0],
     contentTypes |-> [m \in MimeTypes |-> 0],
     totalResponseTimeMs |-> 0, pausedDurationMs |-> 0]

\* request.url: every request the scheduler hands over has its own URL
requestUrl == Len(pages) + stats.errors + 1

\* the scheduler's autoscaled pool taking a call
poolAfter(call) ==
    CASE call = "pause" /\ pool = "running" -> "paused"
      [] call = "resume" /\ pool = "paused" -> "running"
      [] call \in {"abort", "teardown"} /\ pool \in {"running", "paused"} -> "aborted"
      [] OTHER -> pool

\* this.crawler?.autoscaledPool?.<call>()
callPool(call) ==
    IF crawler = "live"
    THEN signal' = call /\ pool' = poolAfter(call)
    ELSE signal' = "none" /\ pool' = pool

pauseVars == <<isPaused, pausedAt, stats, pool, signal, snapInPause>>

\* a pause() without the isRunning guard
pauseOpUnguarded ==
    IF isPaused
    THEN signal' = "none" /\ UNCHANGED <<isPaused, pausedAt, stats, pool, snapInPause>>
    ELSE /\ isPaused' = TRUE
         /\ pausedAt' = now
         /\ callPool("pause")
         /\ snapInPause' = FALSE
         /\ UNCHANGED stats

\* pause(), on the variables of pauseVars
pauseOp ==
    IF ~isRunning \/ isPaused
    THEN signal' = "none" /\ UNCHANGED <<isPaused, pausedAt, stats, pool, snapInPause>>
    ELSE /\ isPaused' = TRUE
         /\ pausedAt' = now
         /\ callPool("pause")
         /\ snapInPause' = FALSE
         /\ UNCHANGED stats

\* a resume() that assigns the last interval instead of adding it
resumeOpAssign ==
    IF ~isPaused
    THEN signal' = "none" /\ UNCHANGED <<isPaused, pausedAt, stats, pool, snapInPause>>
    ELSE /\ isPaused' = FALSE
         /\ IF pausedAt > 0
            THEN /\ stats' = [stats EXCEPT !.pausedDurationMs = now - pausedAt]
                 /\ pausedAt' = 0
            ELSE UNCHANGED <<stats, pausedAt>>
         /\ callPool("resume")
         /\ snapInPause' = FALSE

\* resume(), on the variables of pauseVars
resumeOp ==
    IF ~isPaused
    THEN signal' = "none" /\ UNCHANGED <<isPaused, pausedAt, stats, pool, snapInPause>>
    ELSE /\ isPaused' = FALSE
         /\ IF pausedAt > 0
            THEN /\ stats' = [stats EXCEPT !.pausedDurationMs = @ + (now - pausedAt)]
                 /\ pausedAt' = 0
            ELSE UNCHANGED <<stats, pausedAt>>
         /\ callPool("resume")
         /\ snapInPause' = FALSE

\* togglePause(), on the variables of pauseVars
togglePauseOp == IF isPaused THEN resumeOp ELSE pauseOp

abortVars == <<isRunning, statsInterval, crawler, pool, signal, abortCalled>>

\* abort(), on the variables of abortVars: nothing is awaited
abortOp ==
    /\ abortCalled' = TRUE
    /\ IF ~isRunning
       THEN signal' = "none" /\ UNCHANGED <<isRunning, statsInterval, crawler, pool>>
       ELSE /\ isRunning' = FALSE
            /\ statsInterval' = FALSE
            /\ callPool("abort")
            /\ crawler' = "null"

\* a stop() without the isRunning guard
stopOpUnguarded ==
    /\ isRunning' = FALSE
    /\ IF isPaused THEN resumeOp
       ELSE signal' = "none" /\ UNCHANGED <<isPaused, pausedAt, stats, pool, snapInPause>>
    /\ statsInterval' = FALSE
    /\ UNCHANGED crawler
    /\ IF crawler = "live"
       THEN stopPc' = "awaitQueue" /\ UNCHANGED completeVars
       ELSE stopPc' = stopPc /\ completeIfPages

\* stop() up to its first await, on isRunning, statsInterval, crawler, stopPc,
\* pauseVars and completeVars
stopOp ==
    IF ~isRunning
    THEN /\ signal' = "none"
         /\ UNCHANGED <<isRunning, statsInterval, crawler, stopPc, isPaused, pausedAt, stats,
                        pool, snapInPause, completeVars>>
    ELSE /\ isRunning' = FALSE
         /\ IF isPaused THEN resumeOp
            ELSE signal' = "none" /\ UNCHANGED <<isPaused, pausedAt, stats, pool, snapInPause>>
         /\ statsInterval' = FALSE
         /\ UNCHANGED crawler
         /\ IF crawler = "live"
            THEN stopPc' = "awaitQueue" /\ UNCHANGED completeVars
            ELSE stopPc' = stopPc /\ completeIfPages

\* start(url) up to `await this.crawler.run(...)`
startOp ==
    /\ startPc = "new"
    /\ stats' = [stats EXCEPT !.startTime = now]
    /\ isRunning' = TRUE
    /\ crawler' = "live"
    /\ statsInterval' = TRUE
    /\ pool' = "running"
    /\ signal' = "run"
    /\ startPc' = "awaitRun"

\* start(url) with a url normalizeUrl throws on: the promise rejects at the
\* first statement, before any field is assigned
startRejects ==
    /\ startPc = "new"
    /\ startPc' = "rejected"
    /\ signal' = "none"
    /\ UNCHANGED <<stats, isRunning, crawler, statsInterval, pool>>

\* ---- the engine's public methods, called on their own
start ==
    /\ startOp
    /\ UNCHANGED <<pages, isPaused, pausedAt, now, stopPc, tickPc, state, pageBuffer,
                 appPages, pagesUpdates, flushInterval, uiPaused, uiStats,
                 engineRef, mounted, completeCalls, errorCalls, pageCalls,
                 abortCalled, pausedTotal, snapAt, snapInPause, logCalls, handled,
                 seoTrace>>
    /\ UNCHANGED <<snapMaps, promptVars, tableVars, auxVars>>

pause ==
    /\ pauseOp
    /\ UNCHANGED <<crawler, statsInterval, pages, isRunning, now, startPc, stopPc, tickPc,
                 state, pageBuffer, appPages, pagesUpdates, flushInterval,
                 uiPaused, uiStats, engineRef, mounted, completeCalls, errorCalls,
                 pageCalls, abortCalled, pausedTotal, snapAt, logCalls, handled,
                 seoTrace>>
    /\ UNCHANGED <<snapMaps, promptVars, tableVars, auxVars>>

resume ==
    /\ resumeOp
    /\ UNCHANGED <<crawler, statsInterval, pages, isRunning, now, startPc, stopPc, tickPc,
                 state, pageBuffer, appPages, pagesUpdates, flushInterval,
                 uiPaused, uiStats, engineRef, mounted, completeCalls, errorCalls,
                 pageCalls, abortCalled, pausedTotal, snapAt, logCalls, handled,
                 seoTrace>>
    /\ UNCHANGED <<snapMaps, promptVars, tableVars, auxVars>>

togglePause ==
    /\ togglePauseOp
    /\ UNCHANGED <<crawler, statsInterval, pages, isRunning, now, startPc, stopPc, tickPc,
                 state, pageBuffer, appPages, pagesUpdates, flushInterval,
                 uiPaused, uiStats, engineRef, mounted, completeCalls, errorCalls,
                 pageCalls, abortCalled, pausedTotal, snapAt, logCalls, handled,
                 seoTrace>>
    /\ UNCHANGED <<snapMaps, promptVars, tableVars, auxVars>>

abort ==
    /\ abortOp
    /\ UNCHANGED <<pages, isPaused, pausedAt, stats, now, startPc, stopPc, tickPc, state,
                 pageBuffer, appPages, pagesUpdates, flushInterval, uiPaused,
                 uiStats, engineRef, mounted, completeCalls, errorCalls, pageCalls,
                 pausedTotal, snapAt, snapInPause, logCalls, handled, seoTrace>>
    /\ UNCHANGED <<snapMaps, promptVars, tableVars, auxVars>>

stop ==
    /\ stopOp
    /\ UNCHANGED <<pages, now, startPc, tickPc, appPages, uiStats, engineRef, mounted,
                 errorCalls, pageCalls, abortCalled, pausedTotal, snapAt, logCalls,
                 handled, seoTrace>>
    /\ UNCHANGED <<snapMaps, promptVars, tableVars, auxVars>>

\* ---- the scheduler finishing, and the continuations of start() and stop()
\* the pool has run out of work: crawler.run() resolves
SchedulerFinish ==
    /\ pool = "running"
    /\ pool' = "finished"
    /\ UNCHANGED <<crawler, statsInterval, pages, isRunning, isPaused, pausedAt, stats,
                 signal, now, startPc, stopPc, tickPc, state, pageBuffer, appPages,
                 pagesUpdates, flushInterval, uiPaused, uiStats, engineRef,
                 mounted, completeCalls, errorCalls, pageCalls, abortCalled,
                 pausedTotal, snapAt, snapInPause, logCalls, handled, seoTrace>>
    /\ UNCHANGED <<snapMaps, promptVars, tableVars, auxVars>>

\* start() after `await this.crawler.run(...)`: `await this.stop()`
startAfterRun ==
    /\ startPc = "awaitRun"
    /\ pool \in {"finished", "aborted"}
    /\ startPc' = "done"
    /\ stopOp
    /\ UNCHANGED <<pages, now, tickPc, appPages, uiStats, engineRef, mounted, errorCalls,
                 pageCalls, abortCalled, pausedTotal, snapAt, logCalls, handled,
                 seoTrace>>
    /\ UNCHANGED <<snapMaps, promptVars, tableVars, auxVars>>

\* stop() after `await this.crawler.requestQueue`: res is "queue", "none" (no
\* queue, so no teardown) or "throws"
stopAfterQueue(res) ==
    /\ stopPc = "awaitQueue"
    /\ IF res = "queue"
       THEN /\ stopPc' = "awaitTeardown"
            /\ signal' = "teardown"
            /\ pool' = poolAfter("teardown")
            /\ UNCHANGED <<crawler, logCalls, completeVars>>
       ELSE /\ stopPc' = "idle"
            /\ logCalls' = IF res = "throws" THEN logCalls + 1 ELSE logCalls
            /\ crawler' = "null"
            /\ completeIfPages
            /\ UNCHANGED <<signal, pool>>
    /\ UNCHANGED <<statsInterval, pages, isRunning, isPaused, pausedAt, stats, now,
                 startPc, tickPc, appPages, uiStats, engineRef, mounted,
                 errorCalls, pageCalls, abortCalled, pausedTotal, snapAt,
                 snapInPause, handled, seoTrace>>
    /\ UNCHANGED <<snapMaps, promptVars, tableVars, auxVars>>

\* a stop() that lets a teardown failure escape: nothing after the await runs
stopAfterTeardownPropagates(ok) ==
    /\ stopPc = "awaitTeardown"
    /\ IF ok
       THEN /\ stopPc' = "idle"
            /\ crawler' = "null"
            /\ completeIfPages
       ELSE /\ stopPc' = "threw"
            /\ UNCHANGED <<crawler, completeVars>>
    /\ UNCHANGED logCalls
    /\ UNCHANGED <<statsInterval, pages, isRunning, isPaused, pausedAt, stats, pool,
                 signal, now, startPc, tickPc, appPages, uiStats, engineRef,
                 mounted, errorCalls, pageCalls, abortCalled, pausedTotal, snapAt,
                 snapInPause, handled, seoTrace>>
    /\ UNCHANGED <<snapMaps, promptVars, tableVars, auxVars>>

\* stop() after `await this.crawler.teardown()`, which resolved (ok) or threw
stopAfterTeardown(ok) ==
    /\ stopPc = "awaitTeardown"
    /\ stopPc' = "idle"
    /\ logCalls' = IF ok THEN logCalls ELSE logCalls + 1
    /\ crawler' = "null"
    /\ completeIfPages
    /\ UNCHANGED <<statsInterval, pages, isRunning, isPaused, pausedAt, stats, pool,
                 signal, now, startPc, tickPc, appPages, uiStats, engineRef,
                 mounted, errorCalls, pageCalls, abortCalled, pausedTotal, snapAt,
                 snapInPause, handled, seoTrace>>
    /\ UNCHANGED <<snapMaps, promptVars, tableVars, auxVars>>

\* ---- the handlers the scheduler calls
\* requests in flight are handled while the pool runs, is paused or was aborted
handlersMayRun == startPc # "new" /\ pool \in {"running", "paused", "aborted"}

\* a non-HTML record that carries no reason
nonHtmlPageNoReason(url, code, rt, ct) ==
    [url |-> url, statusCode |-> code, responseTimeMs |-> rt, contentType |-> ct,
     isIndexable |-> FALSE, indexabilityReason |-> "null"]

nonHtmlPage(url, code, rt, ct) ==
    [url |-> url, statusCode |-> code, responseTimeMs |-> rt, contentType |-> ct,
     isIndexable |-> FALSE, indexabilityReason |-> "non-HTML content"]

\* the page record requestHandler builds for a response
pageDataOf(resp) ==
    IF isHtmlType(contentTypeOf(resp)) /\ resp.hasDollar
    THEN LET seoData == extractSeoData(resp)
         IN  [url |-> requestUrl, statusCode |-> seoData.statusCode,
              responseTimeMs |-> resp.responseTimeMs, contentType |-> seoData.contentType,
              isIndexable |-> seoData.isIndexable,
              indexabilityReason |-> seoData.indexabilityReason]
    ELSE nonHtmlPage(requestUrl, statusCodeOf(resp), resp.responseTimeMs, contentTypeOf(resp))

\* the counters requestHandler updates for a page record
statsAfterPage(pageData) ==
    [stats EXCEPT
        !.pagesCrawled = @ + 1,
        !.totalResponseTimeMs = @ + pageData.responseTimeMs,
        !.indexableCount = IF pageData.isIndexable THEN @ + 1 ELSE @,
        !.nonIndexableCount = IF pageData.isIndexable THEN @ ELSE @ + 1,
        !.statusCodes[statusCategory(pageData.statusCode)] = @ + 1,
        !.contentTypes[mimeTypeOf(pageData.contentType)] = @ + 1]

requestHandler(resp) ==
    /\ handlersMayRun
    /\ LET pageData == pageDataOf(resp)
       IN  /\ pages' = Append(pages, pageData)
           /\ stats' = statsAfterPage(pageData)
           /\ onPageCrawled(pageData)
    /\ handled' = <<resp>>
    /\ seoTrace' = IF isHtmlType(contentTypeOf(resp)) /\ resp.hasDollar
                   THEN extractSeoData(resp).checks ELSE <<>>
    /\ UNCHANGED <<crawler, statsInterval, isRunning, isPaused, pausedAt, pool, signal,
                 now, startPc, stopPc, tickPc, state, appPages, pagesUpdates,
                 flushInterval, uiPaused, uiStats, engineRef, mounted,
                 completeCalls, errorCalls, abortCalled, pausedTotal, snapAt,
                 snapInPause, logCalls>>
    /\ UNCHANGED <<snapMaps, promptVars, tableVars, auxVars>>

\* a rejection counted as a page crawled but in neither indexability count
statsAfterRejectionUncounted(mimeType) ==
    [stats EXCEPT
        !.pagesCrawled = @ + 1,
        !.contentTypes[mimeType] = @ + 1]

\* the counters failedRequestHandler updates for a content-type rejection
statsAfterRejection(mimeType) ==
    [stats EXCEPT
        !.pagesCrawled = @ + 1,
        !.nonIndexableCount = @ + 1,
        !.contentTypes[mimeType] = @ + 1]

\* a handler without the content-type branch: every failure is an error
failedRequestHandlerAllErrors(error) ==
    /\ handlersMayRun
    /\ stats' = [stats EXCEPT !.errors = @ + 1]
    /\ errorCalls' = Append(errorCalls, [error |-> error, url |-> requestUrl])
    /\ handled' = <<>>
    /\ seoTrace' = <<>>
    /\ UNCHANGED <<crawler, statsInterval, pages, isRunning, isPaused, pausedAt, pool,
                 signal, now, startPc, stopPc, tickPc, state, pageBuffer, appPages,
                 pagesUpdates, flushInterval, uiPaused, uiStats, engineRef,
                 mounted, completeCalls, pageCalls, abortCalled, pausedTotal,
                 snapAt, snapInPause, logCalls>>
    /\ UNCHANGED <<snapMaps, promptVars, tableVars, auxVars>>

failedRequestHandler(error) ==
    /\ handlersMayRun
    /\ IF mimeMatch(error) # <<>>
       THEN LET contentType == mimeMatch(error)[1]
                pageData == nonHtmlPage(requestUrl, 200, 0, contentType)
            IN  /\ pages' = Append(pages, pageData)
                /\ stats' = statsAfterRejection(mimeTypeOf(contentType))
                /\ onPageCrawled(pageData)
                /\ UNCHANGED errorCalls
       ELSE /\ stats' = [stats EXCEPT !.errors = @ + 1]
            /\ errorCalls' = Append(errorCalls, [error |-> error, url |-> requestUrl])
            /\ UNCHANGED <<pages, pageBuffer, pageCalls>>
    /\ handled' = <<>>
    /\ seoTrace' = <<>>
    /\ UNCHANGED <<crawler, statsInterval, isRunning, isPaused, pausedAt, pool, signal,
                 now, startPc, stopPc, tickPc, state, appPages, pagesUpdates,
                 flushInterval, uiPaused, uiStats, engineRef, mounted,
                 completeCalls, abortCalled, pausedTotal, snapAt, snapInPause,
                 logCalls>>
    /\ UNCHANGED <<snapMaps, promptVars, tableVars, auxVars>>

\* ---- the stats timer (every 500 ms)
\* the timer fires: the callback runs up to `await this.crawler.requestQueue`
statsTick ==
    /\ statsInterval
    /\ tickPc = "idle"
    /\ tickPc' = IF crawler = "live" THEN "awaitQueue" ELSE tickPc
    /\ UNCHANGED <<crawler, statsInterval, pages, isRunning, isPaused, pausedAt, stats,
                 pool, signal, now, startPc, stopPc, state, pageBuffer, appPages,
                 pagesUpdates, flushInterval, uiPaused, uiStats, engineRef,
                 mounted, completeCalls, errorCalls, pageCalls, abortCalled,
                 pausedTotal, snapAt, snapInPause, logCalls, handled, seoTrace>>
    /\ UNCHANGED <<snapMaps, promptVars, tableVars, auxVars>>

\* { ...this.stats, pausedDurationMs: ... }: a shallow copy, whose two maps
\* are the engine's own map objects
snapshotOf(st, activePausedMs) ==
    [pagesCrawled |-> st.pagesCrawled, pagesInQueue |-> st.pagesInQueue,
     errors |-> st.errors, startTime |-> st.startTime,
     uniqueUrlsFound |-> st.uniqueUrlsFound, indexableCount |-> st.indexableCount,
     nonIndexableCount |-> st.nonIndexableCount,
     statusCodes |-> "engine.stats.statusCodes",
     contentTypes |-> "engine.stats.contentTypes",
     totalResponseTimeMs |-> st.totalResponseTimeMs,
     pausedDurationMs |-> st.pausedDurationMs + activePausedMs]

\* a snapshot that is a plain copy of the counters, { ...this.stats }
statsDeliverPlainCopy(pendingRequestCount) ==
    /\ tickPc = "awaitQueue"
    /\ tickPc' = "idle"
    /\ stats' = [stats EXCEPT
                    !.pagesInQueue = pendingRequestCount,
                    !.uniqueUrlsFound = Len(pages) + stats.errors + pendingRequestCount]
    /\ uiStats' = snapshotOf(stats', 0)
    /\ snapAt' = now
    /\ snapInPause' = isPaused
    /\ UNCHANGED <<crawler, statsInterval, pages, isRunning, isPaused, pausedAt, pool,
                 signal, now, startPc, stopPc, state, pageBuffer, appPages,
                 pagesUpdates, flushInterval, uiPaused, engineRef, mounted,
                 completeCalls, errorCalls, pageCalls, abortCalled, pausedTotal,
                 logCalls, handled, seoTrace>>
    /\ snapMaps' = [statusCodes |-> stats.statusCodes, contentTypes |-> stats.contentTypes]
    /\ UNCHANGED <<promptVars, tableVars, auxVars>>

\* the rest of the callback, once the queue has reported pendingRequestCount
statsDeliver(pendingRequestCount) ==
    /\ tickPc = "awaitQueue"
    /\ tickPc' = "idle"
    /\ stats' = [stats EXCEPT
                    !.pagesInQueue = pendingRequestCount,
                    !.uniqueUrlsFound = Len(pages) + stats.errors + pendingRequestCount]
    /\ uiStats' = snapshotOf(stats', IF pausedAt > 0 THEN now - pausedAt ELSE 0)
    /\ snapAt' = now
    /\ snapInPause' = isPaused
    /\ UNCHANGED <<crawler, statsInterval, pages, isRunning, isPaused, pausedAt, pool,
                 signal, now, startPc, stopPc, state, pageBuffer, appPages,
                 pagesUpdates, flushInterval, uiPaused, engineRef, mounted,
                 completeCalls, errorCalls, pageCalls, abortCalled, pausedTotal,
                 logCalls, handled, seoTrace>>
    /\ snapMaps' = [statusCodes |-> stats.statusCodes, contentTypes |-> stats.contentTypes]
    /\ UNCHANGED <<promptVars, tableVars, auxVars>>

\* ---- the clock
Tick ==
    /\ now' = now + 1
    /\ pausedTotal' = IF isPaused THEN pausedTotal + 1 ELSE pausedTotal
    /\ UNCHANGED <<crawler, statsInterval, pages, isRunning, isPaused, pausedAt, stats,
                 pool, signal, startPc, stopPc, tickPc, state, pageBuffer,
                 appPages, pagesUpdates, flushInterval, uiPaused, uiStats,
                 engineRef, mounted, completeCalls, errorCalls, pageCalls,
                 abortCalled, snapAt, snapInPause, logCalls, handled, seoTrace>>
    /\ UNCHANGED <<snapMaps, promptVars, tableVars, auxVars>>

\* ------------------------------------------------------------------------
\* App (app.tsx)
\* ------------------------------------------------------------------------
\* INITIAL_STATS: it has no pausedDurationMs
INITIAL_STATS ==
    [pagesCrawled |-> 0, pagesInQueue |-> 0, errors |-> 0, startTime |-> 0,
     uniqueUrlsFound |-> 0, indexableCount |-> 0, nonIndexableCount |-> 0,
     statusCodes |-> "INITIAL_STATS.statusCodes",
     contentTypes |-> "INITIAL_STATS.contentTypes",
     totalResponseTimeMs |-> 0]

\* handleUrlSubmit: the prompt hands over a target URL; the App stops
\* rendering the Prompt, whose state is dropped
handleUrlSubmit(url) ==
    /\ mounted
    /\ state = "prompting"
    /\ uiStats' = [uiStats EXCEPT !.startTime = now]
    /\ state' = "crawling"
    /\ UNCHANGED <<crawler, statsInterval, pages, isRunning, isPaused, pausedAt, stats,
                 pool, signal, now, startPc, stopPc, tickPc, pageBuffer, appPages,
                 pagesUpdates, flushInterval, uiPaused, engineRef, mounted,
                 completeCalls, errorCalls, pageCalls, abortCalled, pausedTotal,
                 snapAt, snapInPause, logCalls, handled, seoTrace>>
    /\ targetUrl' = url
    /\ promptError' = FALSE
    /\ UNCHANGED <<snapMaps, tableVars, auxVars>>

\* the effect that creates the engine and calls start(targetUrl)
engineEffect ==
    /\ mounted
    /\ state = "crawling"
    /\ ~engineRef
    /\ targetUrl.kind # "undefined"
    /\ engineRef' = TRUE
    /\ IF normalizeUrl(targetUrl).ok THEN startOp ELSE startRejects
    /\ UNCHANGED <<pages, isPaused, pausedAt, now, stopPc, tickPc, state, pageBuffer,
                 appPages, pagesUpdates, flushInterval, uiPaused, uiStats, mounted,
                 completeCalls, errorCalls, pageCalls, abortCalled, pausedTotal,
                 snapAt, snapInPause, logCalls, handled, seoTrace>>
    /\ UNCHANGED <<snapMaps, promptVars, tableVars, auxVars>>

\* the cleanup of that effect, run when state has changed to 'finished'
engineEffectCleanup ==
    /\ mounted
    /\ state = "finished"
    /\ engineRef
    /\ abortOp
    /\ engineRef' = FALSE
    /\ UNCHANGED <<pages, isPaused, pausedAt, stats, now, startPc, stopPc, tickPc, state,
                 pageBuffer, appPages, pagesUpdates, flushInterval, uiPaused,
                 uiStats, mounted, completeCalls, errorCalls, pageCalls,
                 pausedTotal, snapAt, snapInPause, logCalls, handled, seoTrace>>
    /\ UNCHANGED <<snapMaps, promptVars, tableVars, auxVars>>

\* a flush whose updater reads the buffer only when it runs, after the drain
flushTickLateRead ==
    /\ flushInterval
    /\ IF Len(pageBuffer) > 0
       THEN /\ pagesUpdates' = Append(pagesUpdates, <<>>)
            /\ pageBuffer' = <<>>
       ELSE UNCHANGED <<pagesUpdates, pageBuffer>>
    /\ UNCHANGED <<crawler, statsInterval, pages, isRunning, isPaused, pausedAt, stats,
                 pool, signal, now, startPc, stopPc, tickPc, state, appPages,
                 flushInterval, uiPaused, uiStats, engineRef, mounted,
                 completeCalls, errorCalls, pageCalls, abortCalled, pausedTotal,
                 snapAt, snapInPause, logCalls, handled, seoTrace>>
    /\ UNCHANGED <<snapMaps, promptVars, tableVars, auxVars>>

\* the flush timer (every 200 ms)
flushTick ==
    /\ flushInterval
    /\ IF Len(pageBuffer) > 0
       THEN /\ pagesUpdates' = Append(pagesUpdates, pageBuffer)
            /\ pageBuffer' = <<>>
       ELSE UNCHANGED <<pagesUpdates, pageBuffer>>
    /\ UNCHANGED <<crawler, statsInterval, pages, isRunning, isPaused, pausedAt, stats,
                 pool, signal, now, startPc, stopPc, tickPc, state, appPages,
                 flushInterval, uiPaused, uiStats, engineRef, mounted,
                 completeCalls, errorCalls, pageCalls, abortCalled, pausedTotal,
                 snapAt, snapInPause, logCalls, handled, seoTrace>>
    /\ UNCHANGED <<snapMaps, promptVars, tableVars, auxVars>>

\* React runs the oldest queued updater, prev => [...prev, ...batch]
applyPagesUpdate ==
    /\ mounted
    /\ pagesUpdates # <<>>
    /\ appPages' = appPages \o Head(pagesUpdates)
    /\ pagesUpdates' = Tail(pagesUpdates)
    /\ UNCHANGED <<crawler, statsInterval, pages, isRunning, isPaused, pausedAt, stats,
                 pool, signal, now, startPc, stopPc, tickPc, state, pageBuffer,
                 flushInterval, uiPaused, uiStats, engineRef, mounted,
                 completeCalls, errorCalls, pageCalls, abortCalled, pausedTotal,
                 snapAt, snapInPause, logCalls, handled, seoTrace>>
    /\ UNCHANGED <<snapMaps, promptVars, tableVars, auxVars>>

\* useInput, input === 'p'
keyP ==
    /\ mounted
    /\ state # "prompting"
    /\ IF engineRef
       THEN togglePauseOp /\ uiPaused' = isPaused'
       ELSE signal' = "none" /\ UNCHANGED <<isPaused, pausedAt, stats, pool, snapInPause, uiPaused>>
    /\ UNCHANGED <<crawler, statsInterval, pages, isRunning, now, startPc, stopPc, tickPc,
                 state, pageBuffer, appPages, pagesUpdates, flushInterval, uiStats,
                 engineRef, mounted, completeCalls, errorCalls, pageCalls,
                 abortCalled, pausedTotal, snapAt, logCalls, handled, seoTrace>>
    /\ UNCHANGED <<snapMaps, promptVars, tableVars, auxVars>>

\* handleShutdown ('q', SIGINT, SIGTERM): abort the engine and exit(); the
\* effects' cleanups clear the flush timer and drop the engine
handleShutdown ==
    /\ mounted
    /\ IF engineRef THEN abortOp ELSE UNCHANGED abortVars
    /\ mounted' = FALSE
    /\ flushInterval' = FALSE
    /\ engineRef' = FALSE
    /\ UNCHANGED <<pages, isPaused, pausedAt, stats, now, startPc, stopPc, tickPc, state,
                 pageBuffer, appPages, pagesUpdates, uiPaused, uiStats,
                 completeCalls, errorCalls, pageCalls, pausedTotal, snapAt,
                 snapInPause, logCalls, handled, seoTrace>>
    /\ UNCHANGED <<snapMaps, promptVars, tableVars, auxVars>>

\* ------------------------------------------------------------------------
\* The pointer decoder (mouse-parser.ts)
\* ------------------------------------------------------------------------
\* (button & mask) !== 0 for a mask with one bit set
bitSet(button, mask) == (button \div mask) % 2 = 1

\* parseMouseEvent with the base button id reported for a wheel event too
parseMouseEventMasked(button, x, y, terminator) ==
    LET modifiers == [shift |-> bitSet(button, 4), alt |-> bitSet(button, 8),
                      ctrl |-> bitSet(button, 16)]
    IN  [button |-> button % 4, x |-> x, y |-> y,
         type |-> IF bitSet(button, 64) THEN "wheel"
                  ELSE IF terminator = "M" THEN "press" ELSE "release",
         modifiers |-> modifiers]

\* parseMouseEvent with the shift and alt masks exchanged
parseMouseEventSwapped(button, x, y, terminator) ==
    LET modifiers == [shift |-> bitSet(button, 8), alt |-> bitSet(button, 4),
                      ctrl |-> bitSet(button, 16)]
    IN  IF bitSet(button, 64)
        THEN [button |-> button, x |-> x, y |-> y, type |-> "wheel",
              modifiers |-> modifiers]
        ELSE [button |-> button % 4, x |-> x, y |-> y,
              type |-> IF terminator = "M" THEN "press" ELSE "release",
              modifiers |-> modifiers]

\* parseMouseEvent on a sequence that matches the regex
parseMouseEvent(button, x, y, terminator) ==
    LET modifiers == [shift |-> bitSet(button, 4), alt |-> bitSet(button, 8),
                      ctrl |-> bitSet(button, 16)]
    IN  IF bitSet(button, 64)
        THEN [button |-> button, x |-> x, y |-> y, type |-> "wheel",
              modifiers |-> modifiers]
        ELSE [button |-> button % 4, x |-> x, y |-> y,
              type |-> IF terminator = "M" THEN "press" ELSE "release",
              modifiers |-> modifiers]

\* the button codes a terminal sends for a wheel notch: wheel flag, direction
\* in bit 0, and any of shift, alt and ctrl
WheelCodes == {64 + d + 4 * s + 8 * a + 16 * c : d \in {0, 1}, s \in {0, 1}, a \in {0, 1},
                                                   c \in {0, 1}}

\* ------------------------------------------------------------------------
\* Table (table.tsx)
\* ------------------------------------------------------------------------
Max(a, b) == IF a >= b THEN a ELSE b
Min(a, b) == IF a <= b THEN a ELSE b

\* COLUMN_DEFINITIONS: the minWidth of the URL column and of the other
\* columns, in priority order
urlMinWidth == 35
otherCols == <<8, 25, 11, 20, 11, 20, 9, 20, 14>>

\* terminal widths at which the App renders the table: not below MIN_WIDTH
TerminalWidths == {100, 120, 170, 250}
\* availableHeight as the App passes it
Heights == {3, 7, 8}

\* Math.floor(terminalWidth * 0.7) in double arithmetic: 0.7 * 170 is
\* 118.99999999999999
TABLE_WIDTH == IF terminalWidth = 170 THEN 118 ELSE (terminalWidth * 7) \div 10
TABLE_HEIGHT == availableHeight
VISIBLE_ROWS == Max(1, TABLE_HEIGHT - 5)
SCROLLBAR_WIDTH == 1

contentWidth == TABLE_WIDTH - (IF pagesLength > VISIBLE_ROWS THEN SCROLLBAR_WIDTH ELSE 0)
availableForOthers == Max(0, contentWidth - urlMinWidth)

\* otherCols.slice(columnOffset)
availableOtherCols == SubSeq(otherCols, columnOffset + 1, Len(otherCols))

\* a loop that skips a column that does not fit and goes on with the next
RECURSIVE fitSkipping(_, _)
fitSkipping(cols, used) ==
    IF cols = <<>> THEN 0
    ELSE IF used + Head(cols) <= availableForOthers
    THEN 1 + fitSkipping(Tail(cols), used + Head(cols))
    ELSE fitSkipping(Tail(cols), used)

\* the for loop over availableOtherCols: how many columns it pushes before it
\* breaks, given what is used so far
RECURSIVE fit(_, _)
fit(cols, used) ==
    IF cols = <<>> THEN 0
    ELSE IF used + Head(cols) <= availableForOthers
    THEN 1 + fit(Tail(cols), used + Head(cols))
    ELSE 0

RECURSIVE SumSeq(_)
SumSeq(s) == IF s = <<>> THEN 0 ELSE Head(s) + SumSeq(Tail(s))

visibleOtherCols == SubSeq(availableOtherCols, 1, fit(availableOtherCols, 0))
usedByOthers == SumSeq(visibleOtherCols)
hasHiddenRight == Len(visibleOtherCols) < Len(availableOtherCols)
hasHiddenLeft == columnOffset > 0
urlColWidth == Max(urlMinWidth, contentWidth - usedByOthers)

nonTableVars == <<engineVars, envVars, pcVars, appVars, obsVars, promptVars, auxVars>>

\* the dependency arrays of the two effects, as rendered
scrollDepsNow == <<selectedRowIndex, scrollOffset, VISIBLE_ROWS>>
followDepsNow == <<autoFollow, pagesLength>>

\* every effect has run for what is rendered
settled == scrollDeps = scrollDepsNow /\ followDeps = followDepsNow

\* the scroll effect: the value it leaves in scrollOffset
scrollEffect ==
    IF selectedRowIndex < scrollOffset THEN selectedRowIndex
    ELSE IF selectedRowIndex >= scrollOffset + VISIBLE_ROWS
    THEN selectedRowIndex - VISIBLE_ROWS + 1
    ELSE scrollOffset

\* an auto-follow effect that snaps to the last row whatever the flag
autoFollowEffectAlways ==
    IF pagesLength > 0 THEN pagesLength - 1 ELSE selectedRowIndex

\* the auto-follow effect: the value it leaves in selectedRowIndex
autoFollowEffect ==
    IF autoFollow /\ pagesLength > 0 THEN pagesLength - 1 ELSE selectedRowIndex

\* React runs the effects whose dependencies changed in the last render, with
\* the values of that render
tableEffects ==
    /\ ~settled
    /\ scrollOffset' = IF scrollDeps # scrollDepsNow THEN scrollEffect ELSE scrollOffset
    /\ selectedRowIndex' = IF followDeps # followDepsNow THEN autoFollowEffect
                           ELSE selectedRowIndex
    /\ scrollDeps' = scrollDepsNow
    /\ followDeps' = followDepsNow
    /\ UNCHANGED <<columnOffset, autoFollow, pagesLength, terminalWidth, availableHeight,
                   isFocused, nonTableVars>>

\* the keys reach the table when it is focused; an event is handled once the
\* effects of the last render have run
keysReach == mounted /\ state # "prompting" /\ isFocused /\ settled

upArrow ==
    /\ keysReach
    /\ autoFollow' = FALSE
    /\ selectedRowIndex' = Max(0, selectedRowIndex - 1)
    /\ UNCHANGED <<columnOffset, scrollOffset, pagesLength, terminalWidth, availableHeight,
                   isFocused, scrollDeps, followDeps, nonTableVars>>

downArrow ==
    /\ keysReach
    /\ LET next == Min(pagesLength - 1, selectedRowIndex + 1)
       IN  /\ selectedRowIndex' = next
           /\ autoFollow' = IF next >= pagesLength - 1 THEN TRUE ELSE autoFollow
    /\ UNCHANGED <<columnOffset, scrollOffset, pagesLength, terminalWidth, availableHeight,
                   isFocused, scrollDeps, followDeps, nonTableVars>>

leftArrow ==
    /\ keysReach
    /\ columnOffset' = Max(0, columnOffset - 1)
    /\ UNCHANGED <<selectedRowIndex, scrollOffset, autoFollow, pagesLength, terminalWidth,
                   availableHeight, isFocused, scrollDeps, followDeps, nonTableVars>>

\* a right arrow that does not look at hasHiddenRight
rightArrowUnguarded ==
    /\ keysReach
    /\ columnOffset' = columnOffset + 1
    /\ UNCHANGED <<selectedRowIndex, scrollOffset, autoFollow, pagesLength, terminalWidth,
                   availableHeight, isFocused, scrollDeps, followDeps, nonTableVars>>

rightArrow ==
    /\ keysReach
    /\ columnOffset' = IF hasHiddenRight THEN columnOffset + 1 ELSE columnOffset
    /\ UNCHANGED <<selectedRowIndex, scrollOffset, autoFollow, pagesLength, terminalWidth,
                   availableHeight, isFocused, scrollDeps, followDeps, nonTableVars>>

\* input === 'g'
keyg ==
    /\ keysReach
    /\ autoFollow' = FALSE
    /\ selectedRowIndex' = 0
    /\ UNCHANGED <<columnOffset, scrollOffset, pagesLength, terminalWidth, availableHeight,
                   isFocused, scrollDeps, followDeps, nonTableVars>>

\* input === 'G'
keyG ==
    /\ keysReach
    /\ autoFollow' = TRUE
    /\ selectedRowIndex' = pagesLength - 1
    /\ UNCHANGED <<columnOffset, scrollOffset, pagesLength, terminalWidth, availableHeight,
                   isFocused, scrollDeps, followDeps, nonTableVars>>

\* input === 'f' && !autoFollow
keyf ==
    /\ keysReach
    /\ IF ~autoFollow
       THEN autoFollow' = TRUE /\ selectedRowIndex' = pagesLength - 1
       ELSE UNCHANGED <<autoFollow, selectedRowIndex>>
    /\ UNCHANGED <<columnOffset, scrollOffset, pagesLength, terminalWidth, availableHeight,
                   isFocused, scrollDeps, followDeps, nonTableVars>>

\* adjustScroll(delta), on autoFollow and selectedRowIndex: setAutoFollow(true)
\* inside the updater is queued after setAutoFollow(false)
adjustScroll(delta) ==
    LET next == Max(0, Min(pagesLength - 1, selectedRowIndex + delta))
    IN  /\ selectedRowIndex' = next
        /\ autoFollow' = IF next >= pagesLength - 1 THEN TRUE
                         ELSE IF delta < 0 THEN FALSE
                         ELSE autoFollow

\* App.handleMouse for a wheel event
handleMouse(event) ==
    /\ mounted
    /\ state # "prompting"
    /\ settled
    /\ event.type = "wheel"
    /\ adjustScroll(IF event.button = 64 THEN -1 ELSE 1)
    /\ UNCHANGED <<columnOffset, scrollOffset, pagesLength, terminalWidth, availableHeight,
                   isFocused, scrollDeps, followDeps, nonTableVars>>

\* the terminal reports a wheel notch with this button code
mouseWheel(button) == handleMouse(parseMouseEvent(button, 1, 1, "M"))

\* the App renders the table with n more rows
rowsArrive(n) ==
    /\ mounted
    /\ state # "prompting"
    /\ settled
    /\ pagesLength' = pagesLength + n
    /\ UNCHANGED <<selectedRowIndex, columnOffset, scrollOffset, autoFollow, terminalWidth,
                   availableHeight, isFocused, scrollDeps, followDeps, nonTableVars>>

\* the terminal is resized
resize(columns, height) ==
    /\ mounted
    /\ settled
    /\ terminalWidth' = columns
    /\ availableHeight' = height
    /\ UNCHANGED <<selectedRowIndex, columnOffset, scrollOffset, autoFollow, pagesLength,
                   isFocused, scrollDeps, followDeps, nonTableVars>>

\* the App stops rendering the table (options panel open, or terminal too
\* narrow) and renders it again: a new Table with the same pages
tableRemount ==
    /\ mounted
    /\ state # "prompting"
    /\ settled
    /\ selectedRowIndex' = 0
    /\ columnOffset' = 0
    /\ scrollOffset' = 0
    /\ autoFollow' = TRUE
    /\ scrollDeps' = <<>>
    /\ followDeps' = <<>>
    /\ UNCHANGED <<pagesLength, terminalWidth, availableHeight, isFocused, nonTableVars>>

\* the Table as mounted: useState initial values, no effect run yet
InitTable ==
    /\ selectedRowIndex = 0
    /\ columnOffset = 0
    /\ scrollOffset = 0
    /\ autoFollow = TRUE
    /\ pagesLength = 0
    /\ terminalWidth = 120
    /\ availableHeight = 8
    /\ isFocused = TRUE
    /\ scrollDeps = <<>>
    /\ followDeps = <<>>

\* ------------------------------------------------------------------------
\* The Prompt (prompt.tsx) and the command line (cli.tsx)
\* ------------------------------------------------------------------------
\* what the user has typed when return is pressed
PromptValues ==
    {UrlText(FALSE, "none", "", <<>>, FALSE), UrlText(TRUE, "none", "", <<>>, FALSE),
     UrlText(TRUE, "none", "example.com", <<>>, FALSE),
     UrlText(FALSE, "none", "exa_mple.com", <<>>, FALSE)}

\* cli.input[0]: nothing, a URL, or a text normalizeUrl throws on
InitialUrls ==
    {NoUrl, UrlText(FALSE, "https", "example.com", <<>>, TRUE),
     UrlText(FALSE, "none", "exa_mple.com", <<>>, FALSE)}

\* Prompt useInput, key.return: an empty or invalid value sets the error
\* message, a valid one is normalized and submitted
promptReturn(value) ==
    /\ mounted
    /\ state = "prompting"
    /\ IF (value.host = "" /\ value.path = <<>> /\ value.scheme = "none")
          \/ ~validateUrl(value).valid
       THEN /\ promptError' = TRUE
            /\ UNCHANGED <<engineVars, envVars, pcVars, appVars, obsVars, targetUrl,
                           tableVars, auxVars>>
       ELSE handleUrlSubmit(normalizeUrl(value).href)

\* ------------------------------------------------------------------------
\* computeScrollbar (scrollbar.ts)
\* ------------------------------------------------------------------------
\* Math.round(n / d) for d > 0: the nearest integer, a half rounded up
Round(n, d) == (2 * n + d) \div (2 * d)

\* a computeScrollbar without the branch for rows that all fit
computeScrollbarNoFill(params) ==
    LET totalRows == params.totalRows
        visibleRows == params.visibleRows
        trackHeight == params.trackHeight
        thumbSize == Max(1, Round(visibleRows * trackHeight, Max(1, totalRows)))
        maxScroll == Max(1, totalRows - visibleRows)
        maxThumbPos == trackHeight - thumbSize
        thumbStart == Round(params.scrollOffset * maxThumbPos, maxScroll)
    IN  [thumbStart |-> thumbStart, thumbEnd |-> thumbStart + thumbSize,
         trackHeight |-> trackHeight]

\* a computeScrollbar whose thumb size has no minimum
computeScrollbarNoMinimum(params) ==
    LET totalRows == params.totalRows
        visibleRows == params.visibleRows
        trackHeight == params.trackHeight
    IN  IF totalRows <= visibleRows
        THEN [thumbStart |-> 0, thumbEnd |-> trackHeight, trackHeight |-> trackHeight]
        ELSE LET thumbSize == Round(visibleRows * trackHeight, totalRows)
                 maxScroll == Max(1, totalRows - visibleRows)
                 maxThumbPos == trackHeight - thumbSize
                 thumbStart == Round(params.scrollOffset * maxThumbPos, maxScroll)
             IN  [thumbStart |-> thumbStart, thumbEnd |-> thumbStart + thumbSize,
                  trackHeight |-> trackHeight]

computeScrollbar(params) ==
    LET totalRows == params.totalRows
        visibleRows == params.visibleRows
        trackHeight == params.trackHeight
    IN  IF totalRows <= visibleRows
        THEN [thumbStart |-> 0, thumbEnd |-> trackHeight, trackHeight |-> trackHeight]
        ELSE LET thumbSize == Max(1, Round(visibleRows * trackHeight, totalRows))
                 maxScroll == Max(1, totalRows - visibleRows)
                 maxThumbPos == trackHeight - thumbSize
                 thumbStart == Round(params.scrollOffset * maxThumbPos, maxScroll)
             IN  [thumbStart |-> thumbStart, thumbEnd |-> thumbStart + thumbSize,
                  trackHeight |-> trackHeight]

ScrollbarParams(total, visible, offset, track) ==
    [totalRows |-> total, visibleRows |-> visible, scrollOffset |-> offset,
     trackHeight |-> track]

NoCall == [called |-> FALSE]

\* a caller computes a scrollbar
callComputeScrollbar(params) ==
    /\ scrollbarParams' = params
    /\ scrollbarResult' = computeScrollbar(params)
    /\ UNCHANGED besidesScrollbar

InitScrollbar ==
    /\ scrollbarParams = NoCall
    /\ scrollbarResult = NoCall

\* ------------------------------------------------------------------------
\* Table render: the scrollbar column (table.tsx)
\* ------------------------------------------------------------------------
\* pages.slice(start, end).length: a negative index counts from the end
sliceLength(length, lo, hi) ==
    LET from == IF lo < 0 THEN Max(length + lo, 0) ELSE Min(lo, length)
        to == IF hi < 0 THEN Max(length + hi, 0) ELSE Min(hi, length)
    IN  Max(to - from, 0)

visiblePagesLength == sliceLength(pagesLength, scrollOffset, scrollOffset + VISIBLE_ROWS)
showScrollbar == pagesLength > VISIBLE_ROWS

\* computeScrollbar is called for every visible row when the scrollbar shows
scrollbarRendered == mounted /\ showScrollbar /\ visiblePagesLength > 0
renderedScrollbarParams == ScrollbarParams(pagesLength, VISIBLE_ROWS, scrollOffset, VISIBLE_ROWS)

\* ------------------------------------------------------------------------
\* The pointer decoder on a chunk of input (mouse-parser.ts, use-mouse.ts)
\* ------------------------------------------------------------------------
\* a chunk of input is a sequence of tokens: single characters, and maximal
\* runs of decimal digits with their value
Ch(c) == [c |-> c, n |-> 0]
Digits(n) == [c |-> "digits", n |-> n]

\* ESC [ < button ; x ; y terminator
MouseSequence(button, x, y, terminator) ==
    <<Ch("ESC"), Ch("["), Ch("<"), Digits(button), Ch(";"), Digits(x), Ch(";"), Digits(y),
      Ch(terminator)>>

isMouseSequence(data) ==
    /\ Len(data) >= 3
    /\ data[1] = Ch("ESC")
    /\ data[2] = Ch("[")
    /\ data[3] = Ch("<")

\* the regex /\x1b\[<(\d+);(\d+);(\d+)([Mm])/ matches at position i
regexMatchesAt(str, i) ==
    /\ i + 8 <= Len(str)
    /\ str[i] = Ch("ESC")
    /\ str[i + 1] = Ch("[")
    /\ str[i + 2] = Ch("<")
    /\ str[i + 3].c = "digits"
    /\ str[i + 4] = Ch(";")
    /\ str[i + 5].c = "digits"
    /\ str[i + 6] = Ch(";")
    /\ str[i + 7].c = "digits"
    /\ str[i + 8].c \in {"M", "m"}

\* str.match(regex): the capture groups of the leftmost match, or no match
regexMatch(str) ==
    LET at == {i \in 1..Len(str) : regexMatchesAt(str, i)}
    IN  IF at = {} THEN [found |-> FALSE]
        ELSE LET i == CHOOSE i \in at : \A j \in at : i <= j
             IN  [found |-> TRUE, button |-> str[i + 3].n, x |-> str[i + 5].n,
                  y |-> str[i + 7].n, terminator |-> str[i + 8].c]

null == [type |-> "null"]

\* parseMouseEvent reading the capture groups without the null check
parseMouseDataUnchecked(data) ==
    LET match == regexMatch(data)
    IN  IF ~match.found THEN [type |-> "TypeError"]
        ELSE parseMouseEvent(match.button, match.x, match.y, match.terminator)

\* parseMouseEvent(data)
parseMouseData(data) ==
    LET match == regexMatch(data)
    IN  IF ~match.found THEN null
        ELSE parseMouseEvent(match.button, match.x, match.y, match.terminator)

\* a caller decodes a chunk
callParseMouseEvent(data) ==
    /\ mouseData' = [data |-> data, via |-> "call"]
    /\ mouseEvent' = parseMouseData(data)
    /\ UNCHANGED delivered
    /\ UNCHANGED <<besidesMouse, tableVars>>

\* useMouse handleData, with App.handleMouse as onMouseEvent, for pointer
\* positions above the status bar: only a wheel event has an effect
handleData(data) ==
    /\ mounted
    /\ state # "prompting"
    /\ settled
    /\ mouseData' = [data |-> data, via |-> "stdin"]
    /\ LET event == IF isMouseSequence(data) THEN parseMouseData(data) ELSE null
       IN  /\ mouseEvent' = event
           /\ delivered' = IF event = null THEN <<>> ELSE <<event>>
           /\ IF event.type = "wheel"
              THEN adjustScroll(IF event.button = 64 THEN -1 ELSE 1)
              ELSE UNCHANGED <<selectedRowIndex, autoFollow>>
    /\ UNCHANGED <<columnOffset, scrollOffset, pagesLength, terminalWidth, availableHeight,
                   isFocused, scrollDeps, followDeps, besidesMouse>>

InitMouse ==
    /\ mouseData = NoCall
    /\ mouseEvent = NoCall
    /\ delivered = <<>>

\* ------------------------------------------------------------------------
\* normalizeUrl and validateUrl on an input (utils.ts)
\* ------------------------------------------------------------------------
callNormalizeUrl(input) ==
    /\ urlCall' = [fn |-> "normalizeUrl", input |-> input]
    /\ urlResult' = normalizeUrl(input)
    /\ UNCHANGED besidesUrl

callValidateUrl(input) ==
    /\ urlCall' = [fn |-> "validateUrl", input |-> input]
    /\ urlResult' = validateUrl(input)
    /\ UNCHANGED besidesUrl

InitUrl ==
    /\ urlCall = NoCall
    /\ urlResult = NoCall

\* ------------------------------------------------------------------------
\* The debug logger (debug-logger.ts)
\* ------------------------------------------------------------------------
DebugLevels == {"debug", "info", "warning", "error"}

DEBUG_LEVEL_PRIORITY ==
    [level \in DebugLevels |->
        CASE level = "debug" -> 0
          [] level = "info" -> 1
          [] level = "warning" -> 2
          [] level = "error" -> 3]

shouldLog(level, threshold) == DEBUG_LEVEL_PRIORITY[level] >= DEBUG_LEVEL_PRIORITY[threshold]

\* what a call did: the file system calls it made, whether one of them threw,
\* whether the exception left the call, and what the call returned
Call(op, level, opened, wrote, closed, failed, threw, result) ==
    [op |-> op, level |-> level, opened |-> opened, wrote |-> wrote, closed |-> closed,
     failed |-> failed, threw |-> threw, result |-> result]

\* the file system after the calls made
fileAfter(opened, wrote, closed) ==
    [opens |-> logFile.opens + (IF opened THEN 1 ELSE 0),
     writes |-> logFile.writes + (IF wrote THEN 1 ELSE 0),
     closes |-> logFile.closes + (IF closed THEN 1 ELSE 0)]

\* initDebugLog without the check for an open file
initDebugLogUnguarded(level, openOk, writeOk) ==
    /\ currentLevel' = level
    /\ fd' = IF openOk /\ writeOk THEN "fd" ELSE "null"
    /\ logFile' = fileAfter(openOk, openOk, FALSE)
    /\ lastCall' = Call("initDebugLog", level, openOk, openOk, FALSE,
                                 ~(openOk /\ writeOk), FALSE, "void")
    /\ session' = IF session = "none" /\ openOk /\ writeOk THEN level ELSE session
    /\ loggerCalls' = loggerCalls + 1
    /\ UNCHANGED besidesLogger

\* initDebugLog(level); openSync and the writeSync of the separator succeed or
\* throw
initDebugLog(level, openOk, writeOk) ==
    /\ IF fd # "null"
       THEN /\ UNCHANGED <<fd, currentLevel, logFile>>
            /\ lastCall' = Call("initDebugLog", level, FALSE, FALSE, FALSE, FALSE, FALSE, "void")
       ELSE /\ currentLevel' = level
            /\ fd' = IF openOk /\ writeOk THEN "fd" ELSE "null"
            \* writeSync is reached when openSync returned
            /\ logFile' = fileAfter(openOk, openOk, FALSE)
            /\ lastCall' = Call("initDebugLog", level, openOk, openOk, FALSE,
                                 ~(openOk /\ writeOk), FALSE, "void")
    /\ session' = IF session = "none" /\ openOk /\ writeOk THEN level ELSE session
    /\ loggerCalls' = loggerCalls + 1
    /\ UNCHANGED besidesLogger

\* writeDebugLog(level, message); writeSync succeeds or throws
writeDebugLog(level, writeOk) ==
    /\ LET writes == fd # "null" /\ shouldLog(level, currentLevel)
       IN  /\ logFile' = fileAfter(FALSE, writes, FALSE)
           /\ lastCall' = Call("writeDebugLog", level, FALSE, writes, FALSE,
                                  writes /\ ~writeOk, FALSE, "void")
    /\ loggerCalls' = loggerCalls + 1
    /\ UNCHANGED <<fd, currentLevel, session, besidesLogger>>

\* closeDebugLog(); the writeSync of the separator and closeSync succeed or
\* throw
closeDebugLog(writeOk, closeOk) ==
    /\ IF fd = "null"
       THEN /\ UNCHANGED <<fd, currentLevel, logFile>>
            /\ lastCall' = Call("closeDebugLog", "none", FALSE, FALSE, FALSE, FALSE, FALSE, "void")
       ELSE /\ fd' = "null"
            /\ currentLevel' = "warning"
            \* closeSync is reached when writeSync returned
            /\ logFile' = fileAfter(FALSE, TRUE, writeOk)
            /\ lastCall' = Call("closeDebugLog", "none", FALSE, TRUE, writeOk,
                                 ~(writeOk /\ closeOk), FALSE, "void")
    /\ session' = "none"
    /\ loggerCalls' = loggerCalls + 1
    /\ UNCHANGED besidesLogger

isDebugActive ==
    /\ lastCall' = Call("isDebugActive", "none", FALSE, FALSE, FALSE, FALSE, FALSE, fd # "null")
    /\ loggerCalls' = loggerCalls + 1
    /\ UNCHANGED <<fd, currentLevel, logFile, session, besidesLogger>>

InitLogger ==
    /\ fd = "null"
    /\ currentLevel = "warning"
    /\ logFile = [opens |-> 0, writes |-> 0, closes |-> 0]
    /\ lastCall = NoCall
    /\ session = "none"
    /\ loggerCalls = 0

\* ------------------------------------------------------------------------
\* The options panel (Options.tsx)
\* ------------------------------------------------------------------------
FIELDS ==
    <<[key |-> "maxConcurrency", type |-> "number"],
      [key |-> "requestDelayMs", type |-> "number"],
      [key |-> "maxPages", type |-> "number"],
      [key |-> "maxDepth", type |-> "number"],
      [key |-> "respectRobotsTxt", type |-> "boolean"],
      [key |-> "renderJs", type |-> "disabled"],
      [key |-> "userAgent", type |-> "text"]>>

\* strings are sequences of characters
DigitChars == <<"0", "1", "2", "3", "4", "5", "6", "7", "8", "9">>
isDigit(c) == \E d \in 1..10 : DigitChars[d] = c
digitValue(c) == (CHOOSE d \in 1..10 : DigitChars[d] = c) - 1

RECURSIVE numberToString(_)
numberToString(n) ==
    IF n < 10 THEN <<DigitChars[n + 1]>>
    ELSE numberToString(n \div 10) \o <<DigitChars[(n % 10) + 1]>>

\* String(value)
String(value, type) ==
    CASE type = "number" -> numberToString(value)
      [] type = "text" -> value
      [] OTHER -> IF value = TRUE THEN <<"t", "r", "u", "e">> ELSE <<"f", "a", "l", "s", "e">>

\* parseInt(str, 10) for a string without sign and leading whitespace: the
\* number its leading digits spell, NaN when there is none
RECURSIVE leadingDigits(_, _)
leadingDigits(str, acc) ==
    IF str = <<>> \/ ~isDigit(Head(str)) THEN acc
    ELSE leadingDigits(Tail(str), 10 * acc + digitValue(Head(str)))
parseInt(str) ==
    IF str = <<>> \/ ~isDigit(Head(str)) THEN [nan |-> TRUE, num |-> 0]
    ELSE [nan |-> FALSE, num |-> leadingDigits(str, 0)]

\* Enter while a field is being edited: the value stored for the field
editedValue(field) ==
    IF field.type = "number"
    THEN (IF parseInt(editBuffer).nan THEN 0 ELSE parseInt(editBuffer).num)
    ELSE editBuffer

\* the states an Enter outside editing leaves, with the disabled field edited
\* like a text field
pressReturnNoDisabled ==
    LET field == FIELDS[selectedIndex + 1]
    IN  IF field.type = "boolean"
        THEN [currentOptions |->
                  [currentOptions EXCEPT ![field.key] = ~currentOptions[field.key]],
              isEditing |-> isEditing, editBuffer |-> editBuffer]
        ELSE [currentOptions |-> currentOptions, isEditing |-> TRUE,
              editBuffer |-> String(currentOptions[field.key], field.type)]

\* the states an Enter outside editing leaves
pressReturn ==
    LET field == FIELDS[selectedIndex + 1]
    IN  IF field.type = "disabled"
        THEN [currentOptions |-> currentOptions, isEditing |-> isEditing,
              editBuffer |-> editBuffer]
        ELSE IF field.type = "boolean"
        THEN [currentOptions |->
                  [currentOptions EXCEPT ![field.key] = ~currentOptions[field.key]],
              isEditing |-> isEditing, editBuffer |-> editBuffer]
        ELSE [currentOptions |-> currentOptions, isEditing |-> TRUE,
              editBuffer |-> String(currentOptions[field.key], field.type)]

\* the App renders the panel with its options
mountOptions(props) ==
    /\ options = NoCall
    /\ options' = props
    /\ currentOptions' = props
    /\ UNCHANGED <<selectedIndex, isEditing, editBuffer, onCloseCalls, lastKey, keyCount,
                   besidesOptions>>

\* the useInput handler of the panel, which the App unmounts in onClose
useInputOptions(input, key) ==
    /\ options # NoCall
    /\ onCloseCalls = <<>>
    /\ lastKey' = [input |-> input, key |-> key]
    /\ keyCount' = keyCount + 1
    /\ IF isEditing
       THEN IF key \in {"escape", "return"}
            THEN /\ currentOptions' =
                       IF key = "return"
                       THEN [currentOptions EXCEPT ![FIELDS[selectedIndex + 1].key] =
                                                      editedValue(FIELDS[selectedIndex + 1])]
                       ELSE currentOptions
                 /\ isEditing' = FALSE
                 /\ editBuffer' = <<>>
                 /\ UNCHANGED <<selectedIndex, onCloseCalls>>
            ELSE IF key \in {"backspace", "delete"}
            THEN /\ editBuffer' = SubSeq(editBuffer, 1, Len(editBuffer) - 1)
                 /\ UNCHANGED <<currentOptions, selectedIndex, isEditing, onCloseCalls>>
            ELSE /\ editBuffer' = IF Len(input) = 1 THEN editBuffer \o input ELSE editBuffer
                 /\ UNCHANGED <<currentOptions, selectedIndex, isEditing, onCloseCalls>>
       ELSE CASE key = "escape" ->
                   /\ onCloseCalls' = Append(onCloseCalls, currentOptions)
                   /\ UNCHANGED <<currentOptions, selectedIndex, isEditing, editBuffer>>
              [] key = "upArrow" ->
                   /\ selectedIndex' = IF selectedIndex > 0 THEN selectedIndex - 1
                                       ELSE Len(FIELDS) - 1
                   /\ UNCHANGED <<currentOptions, isEditing, editBuffer, onCloseCalls>>
              [] key = "downArrow" ->
                   /\ selectedIndex' = IF selectedIndex < Len(FIELDS) - 1
                                       THEN selectedIndex + 1 ELSE 0
                   /\ UNCHANGED <<currentOptions, isEditing, editBuffer, onCloseCalls>>
              [] key = "return" ->
                   /\ currentOptions' = pressReturn.currentOptions
                   /\ isEditing' = pressReturn.isEditing
                   /\ editBuffer' = pressReturn.editBuffer
                   /\ UNCHANGED <<selectedIndex, onCloseCalls>>
              [] OTHER ->
                   UNCHANGED <<currentOptions, selectedIndex, isEditing, editBuffer,
                               onCloseCalls>>
    /\ UNCHANGED <<options, besidesOptions>>

InitOptions ==
    /\ options = NoCall
    /\ currentOptions = NoCall
    /\ selectedIndex = 0
    /\ isEditing = FALSE
    /\ editBuffer = <<>>
    /\ onCloseCalls = <<>>
    /\ lastKey = NoCall
    /\ keyCount = 0

\* ------------------------------------------------------------------------
\* Initial states and specifications
\* ------------------------------------------------------------------------
\* nothing outside the App has been called yet
\* App's useState(DEFAULT_CRAWL_OPTIONS) and useState(false) for optionsOpen; the
\* engine effect has run with the first options object
InitPanel ==
    /\ optionsOpen = FALSE
    /\ appOptions = 0
    /\ effectOptions = 0
    /\ engineRestarts = 0

InitBar ==
    /\ barReport = NoCall
    /\ barFired = {}
    /\ consoleOpen = FALSE
    /\ exportCalls = 0

InitAux ==
    /\ InitScrollbar
    /\ InitMouse
    /\ InitUrl
    /\ InitLogger
    /\ InitOptions
    /\ InitPanel
    /\ InitBar

InitEngine ==
    /\ crawler = "null"
    /\ statsInterval = FALSE
    /\ pages = <<>>
    /\ isRunning = FALSE
    /\ isPaused = FALSE
    /\ pausedAt = 0
    /\ stats = initialStats
    /\ pool = "idle"
    /\ signal = "none"
    /\ now = 1
    /\ startPc = "new"
    /\ stopPc = "idle"
    /\ tickPc = "idle"
    /\ completeCalls = 0
    /\ errorCalls = <<>>
    /\ pageCalls = 0
    /\ abortCalled = FALSE
    /\ pausedTotal = 0
    /\ snapAt = 0
    /\ snapInPause = FALSE
    /\ logCalls = 0
    /\ handled = <<>>
    /\ seoTrace = <<>>
    /\ snapMaps = [statusCodes |-> initialStats.statusCodes,
                   contentTypes |-> initialStats.contentTypes]

InitApp(st) ==
    /\ state = st
    /\ promptError = FALSE
    /\ pageBuffer = <<>>
    /\ appPages = <<>>
    /\ pagesUpdates = <<>>
    /\ flushInterval = TRUE
    /\ uiPaused = FALSE
    /\ uiStats = IF st = "crawling" THEN [INITIAL_STATS EXCEPT !.startTime = 1]
                 ELSE INITIAL_STATS
    /\ mounted = TRUE

\* The App as mounted, at the prompt or with a URL from the command line.
Init ==
    /\ InitEngine
    /\ InitTable
    /\ InitAux
    /\ \E initialUrl \in InitialUrls :
          /\ InitApp(IF initialUrl.kind = "undefined" THEN "prompting" ELSE "crawling")
          /\ targetUrl = initialUrl
    /\ engineRef = FALSE

Next ==
    \/ \E value \in PromptValues : promptReturn(value)
    \/ engineEffect
    \/ engineEffectCleanup
    \/ flushTick
    \/ applyPagesUpdate
    \/ keyP
    \/ handleShutdown
    \/ SchedulerFinish
    \/ startAfterRun
    \/ \E res \in {"queue", "none", "throws"} : stopAfterQueue(res)
    \/ \E ok \in BOOLEAN : stopAfterTeardown(ok)
    \/ \E resp \in OneResponse : Len(pages) < MaxPages /\ requestHandler(resp)
    \/ \E error \in SampleErrors :
          Len(pages) < MaxPages /\ stats.errors < MaxErrors /\ failedRequestHandler(error)

Spec == Init /\ [][Next]_vars

\* The engine on its own: constructed by the App's effect, its methods called
\* in any order by a caller, its handlers and timers run by the scheduler.
InitEngineOnly ==
    /\ InitEngine
    /\ InitTable
    /\ InitAux
    /\ InitApp("crawling")
    /\ targetUrl = UrlText(FALSE, "https", "example.com", <<>>, TRUE)
    /\ engineRef = TRUE

NextEngine ==
    \/ start
    \/ pause
    \/ resume
    \/ togglePause
    \/ abort
    \/ stop
    \/ SchedulerFinish
    \/ startAfterRun
    \/ \E res \in {"queue", "none", "throws"} : stopAfterQueue(res)
    \/ \E ok \in BOOLEAN : stopAfterTeardown(ok)
    \/ \E resp \in OneResponse : Len(pages) < MaxPages /\ requestHandler(resp)
    \/ \E error \in SampleErrors :
          Len(pages) < MaxPages /\ stats.errors < MaxErrors /\ failedRequestHandler(error)

SpecEngine == InitEngineOnly /\ [][NextEngine]_vars

\* The engine's bookkeeping: every kind of response and failure, and stats
\* ticks, in any order.
NextCount ==
    \/ start
    \/ \E resp \in SampleResponses : Len(pages) < MaxCountPages /\ requestHandler(resp)
    \/ \E error \in ErrorMessages :
          /\ Len(pages) < MaxCountPages
          /\ stats.errors < MaxCountErrors
          /\ failedRequestHandler(error)
    \/ statsTick
    \/ \E n \in PendingCounts : statsDeliver(n)

SpecCount == InitEngineOnly /\ [][NextCount]_vars

\* The engine with the clock running: pauses, resumes and stats ticks at
\* every clock value.
NextTime ==
    \/ start
    \/ pause
    \/ resume
    \/ togglePause
    \/ abort
    \/ stop
    \/ SchedulerFinish
    \/ startAfterRun
    \/ \E res \in {"queue", "none", "throws"} : stopAfterQueue(res)
    \/ \E ok \in BOOLEAN : stopAfterTeardown(ok)
    \/ \E resp \in OneResponse : Len(pages) < MaxTimedPages /\ requestHandler(resp)
    \/ statsTick
    \/ \E n \in PendingCounts : statsDeliver(n)
    \/ now < MaxTime /\ Tick

SpecTime == InitEngineOnly /\ [][NextTime]_vars

\* ------------------------------------------------------------------------
\* Properties
\* ------------------------------------------------------------------------
RECURSIVE Flatten(_)
Flatten(seqs) == IF seqs = <<>> THEN <<>> ELSE Head(seqs) \o Flatten(Tail(seqs))

IsPrefix(s, t) == Len(s) <= Len(t) /\ \A i \in 1..Len(s) : s[i] = t[i]

NoDuplicates(s) == \A i, j \in 1..Len(s) : i # j => s[i] # s[j]

\* every record pushed so far is in exactly one place: displayed, in a queued
\* batch, or still in the buffer, in push order
C1_Conserved == appPages \o Flatten(pagesUpdates) \o pageBuffer = pages

\* a batch is queued only by taking the whole buffer and emptying it
C1_FlushStep ==
    Len(pagesUpdates') > Len(pagesUpdates) =>
        /\ pageBuffer # <<>>
        /\ pagesUpdates' = Append(pagesUpdates, pageBuffer)
        /\ pageBuffer' = <<>>

\* the displayed list changes only by appending the oldest queued batch, whole
C1_GrowStep ==
    appPages' # appPages =>
        /\ pagesUpdates # <<>>
        /\ Head(pagesUpdates) # <<>>
        /\ appPages' = appPages \o Head(pagesUpdates)
        /\ pagesUpdates' = Tail(pagesUpdates)

\* C1: under every interleaving of pushes, flush ticks and deferred display
\* updates, a flush takes the whole buffer and empties it in one step; the
\* displayed list is always a prefix of the records pushed so far, grows by one
\* whole drained batch at a time, and no record is lost or shown twice.
C1_FlushAtomic ==
    /\ [](C1_Conserved /\ IsPrefix(appPages, pages) /\ NoDuplicates(appPages))
    /\ [][C1_FlushStep /\ C1_GrowStep]_vars

\* a batch displayed, another queued, and a record pushed since
C1_Witness == Len(appPages) >= 1 /\ Len(pagesUpdates) >= 1 /\ Len(pageBuffer) >= 1

\* the step into 'finished': timer cancelled, buffer drained into the display
\* queue, in that one handler
C2_CompleteStep ==
    (state' = "finished" /\ state # "finished") =>
        /\ ~flushInterval'
        /\ pageBuffer' = <<>>
        /\ pagesUpdates' = IF pageBuffer # <<>> THEN Append(pagesUpdates, pageBuffer)
                           ELSE pagesUpdates

\* once finished, no batch is queued any more
C2_NoFlushAfter == state = "finished" => Len(pagesUpdates') <= Len(pagesUpdates)

\* C2: on graceful completion the handler cancels the flush timer, drains what
\* remains of the buffer into the display list and marks the session finished;
\* once finished the buffer is empty, no flush tick runs any more, and no record
\* is flushed twice.
C2_FinalFlush ==
    /\ [](state = "finished" => (pageBuffer = <<>> /\ ~flushInterval))
    /\ [](NoDuplicates(appPages \o Flatten(pagesUpdates)))
    /\ [][C2_CompleteStep /\ C2_NoFlushAfter]_vars

\* finished, with the final batch queued behind an earlier flush
C2_Witness ==
    /\ state = "finished"
    /\ completeCalls = 1
    /\ Len(pagesUpdates) >= 2
    /\ Len(appPages) >= 1

\* stop() on an engine that is not running returns at once
C3_StopNoOp ==
    (stop /\ ~isRunning) =>
        UNCHANGED <<crawler, statsInterval, pages, isRunning, isPaused, pausedAt, stats,
                    pool, stopPc, completeVars>>

\* a stop() that found the engine running ends with one completion callback
\* when a page was processed, and with none otherwise
C3_StopEnds ==
    (stopPc # "idle" /\ stopPc' = "idle") =>
        completeCalls' = IF stats.pagesCrawled > 0 THEN 1 ELSE 0

\* C3: the completion callback is invoked at most once per session; stop() on
\* an engine that is not running does nothing; a stop() that found the engine
\* running invokes the callback exactly once when at least one page was
\* processed, also when start() calls stop() after the scheduler finished and
\* the caller calls stop() again.
C3_CompleteOnce ==
    /\ [](completeCalls <= 1)
    /\ [][C3_StopNoOp /\ C3_StopEnds]_vars

\* the scheduler finished, start() stopped the engine, the callback ran once,
\* and a later stop() found nothing to do
C3_Witness ==
    /\ completeCalls = 1
    /\ startPc = "done"
    /\ stopPc = "idle"
    /\ pool = "finished"
    /\ ~isRunning
    /\ signal = "none"

\* C4: abort() is synchronous, and once abort() has been called the completion
\* callback is never invoked afterwards.
C4_NoCompleteAfterAbort == [][abortCalled => completeCalls' = completeCalls]_vars

\* C5: pause(), resume() and togglePause() called on an engine that is not
\* running (before start(), after stop() or abort()) change no engine state
\* and send nothing to the scheduler.
C5_NoOpUnlessRunning ==
    [][((pause \/ resume \/ togglePause) /\ ~isRunning) =>
           (UNCHANGED <<isPaused, pausedAt, stats, pool>> /\ signal' = "none")]_vars

\* pause() on a paused engine and resume() on one that is not paused leave the
\* pause timestamp and the accumulated counter alone
C6_NoOps ==
    /\ (pause /\ isPaused) => UNCHANGED <<pausedAt, stats, isPaused>>
    /\ (resume /\ ~isPaused) => UNCHANGED <<pausedAt, stats, isPaused>>

\* a resume() of a paused engine, and a stop() of a running paused one, add
\* the time since the matching pause() to the counter and clear the timestamp
C6_Closes ==
    ((resume \/ stop \/ startAfterRun) /\ isPaused /\ (resume \/ isRunning)) =>
        /\ stats'.pausedDurationMs = stats.pausedDurationMs + (now - pausedAt)
        /\ stats'.pausedDurationMs = pausedTotal
        /\ pausedAt' = 0
        /\ ~isPaused'

\* C6: whenever the engine is not paused, the accumulated paused duration is
\* the sum of the completed pause intervals, each from its pause() to the
\* matching resume() or to the stop() that ended it; pause() on a paused
\* engine and resume() on one that is not paused change nothing.
C6_PausedDuration ==
    /\ [](~isPaused => (stats.pausedDurationMs = pausedTotal /\ pausedAt = 0))
    /\ [](isPaused => pausedAt > 0)
    /\ [][C6_NoOps /\ C6_Closes]_vars

\* stopped with the callback made, after pauses that lasted two clock steps
\* and some time not paused
C6_Witness ==
    /\ ~isPaused
    /\ ~isRunning
    /\ completeCalls = 1
    /\ stats.pausedDurationMs >= 2
    /\ now - stats.startTime > stats.pausedDurationMs

Deliver == \E n \in PendingCounts : statsDeliver(n)

\* the time the sidebar shows as elapsed for a snapshot taken at clock t
ActiveElapsed(snap, t) == t - snap.startTime - snap.pausedDurationMs

\* C7: each stats snapshot reports as paused duration all the time spent
\* paused so far: the accumulated counter plus, during a pause, the time since
\* the pause began; the value never decreases from one snapshot to the next;
\* and between two consecutive snapshots of one pause the active elapsed time
\* computed from them (now - startTime - pausedDurationMs) does not advance.
C7_SnapshotPaused ==
    /\ [][Deliver => uiStats'.pausedDurationMs = pausedTotal]_vars
    /\ [][(Deliver /\ isPaused) =>
             uiStats'.pausedDurationMs = stats.pausedDurationMs + (now - pausedAt)]_vars
    /\ [][(Deliver /\ ~isPaused) =>
             uiStats'.pausedDurationMs = stats.pausedDurationMs]_vars
    /\ [][(Deliver /\ snapAt > 0) =>
             uiStats'.pausedDurationMs >= uiStats.pausedDurationMs]_vars
    /\ [][(Deliver /\ isPaused /\ snapInPause) =>
             ActiveElapsed(uiStats', now) = ActiveElapsed(uiStats, snapAt)]_vars

\* a snapshot taken in the middle of a second pause, after an earlier one of
\* the same pause
C7_Witness ==
    /\ isPaused
    /\ snapInPause
    /\ snapAt = now
    /\ stats.pausedDurationMs > 0
    /\ uiStats.pausedDurationMs > stats.pausedDurationMs

CountWhere(s, indexable) == Cardinality({i \in 1..Len(s) : s[i].isIndexable = indexable})

\* C8: at every moment, and in every stats snapshot delivered, the number of
\* pages crawled equals the indexable count plus the non-indexable count, and
\* equals the number of page records emitted; content-type rejections counted
\* as pages included.
C8_CountsAgree ==
    /\ stats.pagesCrawled = stats.indexableCount + stats.nonIndexableCount
    /\ stats.pagesCrawled = Len(pages)
    /\ stats.pagesCrawled = pageCalls
    /\ stats.indexableCount = CountWhere(pages, TRUE)
    /\ stats.nonIndexableCount = CountWhere(pages, FALSE)
    /\ snapAt > 0 => uiStats.pagesCrawled = uiStats.indexableCount + uiStats.nonIndexableCount

\* a snapshot delivered after an indexable page and a content-type rejection,
\* with a real error counted as well
C8_Witness ==
    /\ stats.indexableCount = 1
    /\ \E i \in 1..Len(pages) : pages[i].responseTimeMs = 0
    /\ stats.errors = 1
    /\ snapAt > 0
    /\ uiStats.pagesCrawled = 2

\* the failed request was a content-type rejection: a non-indexable page
\* record, not an error
C9_Rejection(error) ==
    /\ pages' = Append(pages, [url |-> requestUrl, statusCode |-> 200, responseTimeMs |-> 0,
                               contentType |-> mimeMatch(error)[1], isIndexable |-> FALSE,
                               indexabilityReason |-> "non-HTML content"])
    /\ pageBuffer' = Append(pageBuffer, pages'[Len(pages')])
    /\ pageCalls' = pageCalls + 1
    /\ stats'.pagesCrawled = stats.pagesCrawled + 1
    /\ stats'.nonIndexableCount = stats.nonIndexableCount + 1
    /\ stats'.indexableCount = stats.indexableCount
    /\ stats'.errors = stats.errors
    /\ errorCalls' = errorCalls

\* the failed request was a real error: counted and reported, no page record
C9_Error(error) ==
    /\ stats'.errors = stats.errors + 1
    /\ errorCalls' = Append(errorCalls, [error |-> error, url |-> requestUrl])
    /\ pages' = pages
    /\ pageBuffer' = pageBuffer
    /\ pageCalls' = pageCalls
    /\ stats'.pagesCrawled = stats.pagesCrawled
    /\ stats'.nonIndexableCount = stats.nonIndexableCount
    /\ stats'.indexableCount = stats.indexableCount

\* C9: a failed request whose error message is a content-type rejection is
\* turned into a non-indexable page record with reason 'non-HTML content' and
\* counted as a page crawled, not as an error; every other failure increments
\* the error count and calls the error callback with the failure and the URL
\* of the request, and adds no page record.
C9_FailedRequest ==
    [][\A error \in ErrorMessages :
          failedRequestHandler(error) =>
              IF mimeMatch(error) # <<>> THEN C9_Rejection(error) ELSE C9_Error(error)]_vars

\* a rejection recorded as a page and a real error reported
C9_Witness ==
    /\ Len(errorCalls) = 1
    /\ stats.errors = 1
    /\ \E i \in 1..Len(pages) :
          /\ pages[i].contentType = "application/pdf"
          /\ pages[i].indexabilityReason = "non-HTML content"
          /\ pages[i].responseTimeMs = 0

\* The classifier on every response: one request handled by a fresh engine.
NextClassify ==
    \/ start
    \/ (pages = <<>> /\ \E resp \in AllResponses : requestHandler(resp))

SpecClassify == InitEngineOnly /\ [][NextClassify]_vars

NoindexWords == {"noindex", "NOINDEX", "NoIndex"}

\* the four signals, read off the response
MetaNoindex(r) ==
    r.robotsMeta.kind = "string" /\ \E i \in 1..Len(r.robotsMeta.value) :
                                       r.robotsMeta.value[i] \in NoindexWords

HeaderNoindex(r) ==
    \/ r.xRobotsTag.kind = "string" /\ \E i \in 1..Len(r.xRobotsTag.value) :
                                          r.xRobotsTag.value[i] \in NoindexWords
    \/ r.xRobotsTag.kind = "array" /\ \E e \in 1..Len(r.xRobotsTag.value) :
                                         \E i \in 1..Len(r.xRobotsTag.value[e]) :
                                            r.xRobotsTag.value[e][i] \in NoindexWords

\* the canonical names the page itself: same origin (or a relative reference)
\* and same path, whatever the fragment and the trailing slash
SameResource(c, page) ==
    c.valid /\ (c.abs => c.origin = page.origin) /\ c.path = page.path

CanonicalMismatch(r) == r.canonical.kind = "url" /\ ~SameResource(r.canonical.value, r.url)

ErrorStatus(r) == r.statusCode >= 400

\* the first signal present, 0 when there is none
FirstSignal(r) ==
    IF MetaNoindex(r) THEN 1
    ELSE IF HeaderNoindex(r) THEN 2
    ELSE IF CanonicalMismatch(r) THEN 3
    ELSE IF ErrorStatus(r) THEN 4
    ELSE 0

ReasonOf(k, r) ==
    CASE k = 0 -> "null"
      [] k = 1 -> "noindex meta tag"
      [] k = 2 -> "X-Robots-Tag noindex"
      [] k = 3 -> "canonical mismatch"
      [] k = 4 -> CASE r.statusCode = 400 -> "HTTP 400"
                    [] r.statusCode = 404 -> "HTTP 404"
                    [] r.statusCode = 500 -> "HTTP 500"

\* the response carries a Content-Type that is not an HTML one
NonHtml(r) == r.contentType \in {"application/json", "application/pdf"}

\* C10: the classifier looks for noindex meta tag, X-Robots-Tag noindex,
\* canonical mismatch and HTTP status >= 400 in that order, records the reason
\* of the first one present and evaluates no later rule; a page with none is
\* indexable with no reason; a non-HTML response never reaches the classifier
\* and is recorded as non-indexable with reason 'non-HTML content'.
C10_FirstMatch ==
    handled # <<>> =>
        LET r == handled[1]
            rec == pages[Len(pages)]
            k == FirstSignal(r)
        IN  /\ (seoTrace # <<>>) = (~NonHtml(r) /\ r.hasDollar)
            /\ NonHtml(r) =>
                  /\ seoTrace = <<>>
                  /\ ~rec.isIndexable
                  /\ rec.indexabilityReason = "non-HTML content"
            /\ seoTrace # <<>> =>
                  /\ seoTrace = [i \in 1..(IF k = 0 THEN 4 ELSE k) |-> i]
                  /\ rec.isIndexable = (k = 0)
                  /\ rec.indexabilityReason = ReasonOf(k, r)

\* a 404 page with a foreign canonical: the canonical rule decides and the
\* status rule is not evaluated
C10_Witness ==
    /\ handled # <<>>
    /\ seoTrace = <<1, 2, 3>>
    /\ handled[1].statusCode = 404
    /\ pages[1].indexabilityReason = "canonical mismatch"

\* The table on its own: keys, wheel notches, arriving rows and resizes in any
\* order, the effects run after every render.
MaxRows == 4

NextTable ==
    \/ tableEffects
    \/ upArrow
    \/ downArrow
    \/ leftArrow
    \/ rightArrow
    \/ keyg
    \/ keyG
    \/ keyf
    \/ \E button \in WheelCodes : mouseWheel(button)
    \/ \E n \in 1..2 : pagesLength + n <= MaxRows /\ rowsArrive(n)
    \/ \E columns \in TerminalWidths : \E height \in Heights : resize(columns, height)
    \/ tableRemount

SpecTable == InitEngineOnly /\ [][NextTable]_vars

\* ------------------------------------------------------------------------
\* C11
\* ------------------------------------------------------------------------
\* the target URL the App holds is one normalizeUrl throws on
C11_Rejected == targetUrl.kind = "string" /\ ~normalizeUrl(targetUrl).ok

\* C11: a target URL that the normalizer rejects never starts a session,
\* whether typed at the prompt or given on the command line: the App is not
\* in the crawling state, the engine has neither its running flag nor a start
\* time, there is no scheduler and no stats timer, and start() has not
\* rejected with nobody to catch it.
C11_RejectedUrlNeverStarts ==
    C11_Rejected =>
        /\ state # "crawling"
        /\ ~isRunning
        /\ stats.startTime = 0
        /\ crawler = "null"
        /\ ~statsInterval
        /\ startPc # "rejected"

\* ------------------------------------------------------------------------
\* C12
\* ------------------------------------------------------------------------
\* stop() resumes from an await whose promise rejected
C12_TeardownFails == stopAfterTeardown(FALSE) \/ stopAfterQueue("throws")

\* C12: when the scheduler's teardown throws or rejects during stop(), stop()
\* returns normally, calls the log callback once, releases the scheduler, and
\* calls the completion callback when pages were processed (and only then).
C12_TeardownTolerated ==
    [][C12_TeardownFails =>
        /\ stopPc' = "idle"
        /\ logCalls' = logCalls + 1
        /\ crawler' = "null"
        /\ completeCalls' = IF Len(pages) > 0 \/ stats.pagesCrawled > 0
                            THEN completeCalls + 1 ELSE completeCalls]_vars

\* a teardown failed after a page was processed: logged, released, completed
C12_Witness ==
    /\ logCalls = 1
    /\ stopPc = "idle"
    /\ crawler = "null"
    /\ Len(pages) > 0
    /\ completeCalls = 1
    /\ signal = "teardown"

\* ------------------------------------------------------------------------
\* C13
\* ------------------------------------------------------------------------
\* what a map field of a snapshot reads as now: the engine's own map where
\* the field is a reference to it
deref(map) ==
    CASE map = "engine.stats.statusCodes" -> stats.statusCodes
      [] map = "engine.stats.contentTypes" -> stats.contentTypes
      [] OTHER -> map

\* C13: a delivered stats snapshot is read-only: the per-status-class map and
\* the per-MIME-type map of the snapshot the display holds read as they did
\* when the snapshot was delivered, whatever page events, failure events and
\* stats ticks came later.
C13_SnapshotReadOnly ==
    snapAt > 0 =>
        /\ deref(uiStats.statusCodes) = snapMaps.statusCodes
        /\ deref(uiStats.contentTypes) = snapMaps.contentTypes

\* ------------------------------------------------------------------------
\* C14
\* ------------------------------------------------------------------------
\* the session state, from the App's state and the engine's pause flag; a
\* session whose App has exited is over
SessionState ==
    IF ~mounted \/ state = "finished" THEN "Finished"
    ELSE IF state = "prompting" THEN "Prompting"
    ELSE IF isPaused THEN "Paused"
    ELSE "Running"

SessionRank(s) ==
    CASE s = "Prompting" -> 0
      [] s \in {"Running", "Paused"} -> 1
      [] s = "Finished" -> 2

\* C14: the session state only moves forward, Prompting -> Running ->
\* Finished, Running <-> Paused being the only step that can be undone; a
\* Finished session stays Finished after every later event, and its engine is
\* neither running nor paused.
C14_ForwardOnly ==
    /\ [][SessionRank(SessionState') >= SessionRank(SessionState)]_vars
    /\ [][SessionState = "Finished" => SessionState' = "Finished"]_vars
    /\ [][SessionState = "Finished" => ~isRunning']_vars
    /\ [][state = "finished" => (~isPaused' /\ ~uiPaused')]_vars

\* the session is Finished and a later event has acted on it: the engine
\* effect's cleanup has aborted the engine and dropped it
C14_Witness ==
    /\ state = "finished"
    /\ mounted
    /\ completeCalls = 1
    /\ abortCalled
    /\ ~engineRef
    /\ ~isRunning
    /\ ~isPaused

\* ------------------------------------------------------------------------
\* C15
\* ------------------------------------------------------------------------
Abs(n) == IF n < 0 THEN -n ELSE n

\* C15: whatever up and down arrows, 'g', 'G', 'f' and wheel steps the table
\* has received, and for any number of rows including none, the selected row
\* index is at least 0 and at most max(0, rowCount - 1); an up or down arrow
\* changes it by at most one.
C15_SelectionInRange ==
    /\ [](selectedRowIndex >= 0 /\ selectedRowIndex <= Max(0, pagesLength - 1))
    /\ [][(upArrow \/ downArrow) => Abs(selectedRowIndex' - selectedRowIndex) <= 1]_vars

\* ------------------------------------------------------------------------
\* C16
\* ------------------------------------------------------------------------
\* an upward wheel step: the wheel-up button code, no modifier held
C16_WheelUp == mouseWheel(64)

\* C16: auto-follow is on in a table just created; while it is on and there
\* are rows, once the effects have run the selection is the last row; an up
\* arrow, an upward wheel step and 'g' leave it off; 'G', and 'f' pressed
\* while it is off, leave it on with the last row selected.
C16_AutoFollow ==
    /\ [][tableRemount => autoFollow']_vars
    /\ []((settled /\ autoFollow /\ pagesLength > 0) => selectedRowIndex = pagesLength - 1)
    /\ [][(upArrow \/ C16_WheelUp \/ keyg) => ~autoFollow']_vars
    /\ [][(keyG \/ (keyf /\ ~autoFollow)) =>
             (autoFollow' /\ selectedRowIndex' = pagesLength - 1)]_vars

\* ------------------------------------------------------------------------
\* C17
\* ------------------------------------------------------------------------
\* C17: once the table's effects have run for what is rendered, the scroll
\* offset is at least 0 and the selected row is inside the visible window:
\* scrollOffset <= selectedRowIndex < scrollOffset + VISIBLE_ROWS.
C17_SelectionVisible ==
    settled =>
        /\ scrollOffset >= 0
        /\ scrollOffset <= selectedRowIndex
        /\ selectedRowIndex < scrollOffset + VISIBLE_ROWS

\* ------------------------------------------------------------------------
\* C18
\* ------------------------------------------------------------------------
\* the width left for the other columns: the table's width less the
\* scrollbar gutter, when there is a scrollbar, and the URL column's minimum
C18_Room ==
    TABLE_WIDTH - (IF pagesLength > VISIBLE_ROWS THEN 1 ELSE 0) - urlMinWidth

\* the summed minimum widths of the k columns from columnOffset on
C18_RunWidth(k) == SumSeq(SubSeq(otherCols, columnOffset + 1, columnOffset + k))

\* the lengths of the runs starting at columnOffset that fit
C18_Fitting == {k \in 0..(Len(otherCols) - columnOffset) : C18_RunWidth(k) <= C18_Room}

C18_LongestRun == CHOOSE k \in C18_Fitting : \A j \in C18_Fitting : j <= k

\* C18: at every terminal width, row count and column offset, the columns
\* shown after the URL column are the longest run of consecutive columns
\* from columnOffset on whose minimum widths fit in the room left; the URL
\* column has all the width they do not use; 'more to the right' is shown
\* exactly when a column at or after columnOffset is not shown, and 'more to
\* the left' exactly when columnOffset > 0.
C18_Layout ==
    /\ visibleOtherCols = SubSeq(otherCols, columnOffset + 1, columnOffset + C18_LongestRun)
    /\ urlColWidth + SumSeq(visibleOtherCols) = C18_Room + urlMinWidth
    /\ hasHiddenRight <=> columnOffset + Len(visibleOtherCols) < Len(otherCols)
    /\ hasHiddenLeft <=> columnOffset > 0

\* columns hidden on both sides of two or more shown ones, with a scrollbar
C18_Witness ==
    /\ columnOffset > 0
    /\ hasHiddenRight
    /\ Len(visibleOtherCols) >= 2
    /\ pagesLength > VISIBLE_ROWS
    /\ settled

\* ------------------------------------------------------------------------
\* C19
\* ------------------------------------------------------------------------
\* some column at or after columnOffset does not fit in the room left
C19_HiddenToTheRight ==
    SumSeq(SubSeq(otherCols, columnOffset + 1, Len(otherCols))) > C18_Room

\* C19: a right arrow adds one to columnOffset when a column is hidden to the
\* right and leaves it alone otherwise; a left arrow takes one off, but not
\* below 0; columnOffset is always between 0 and the number of non-URL
\* columns.
C19_ColumnOffset ==
    /\ [][rightArrow => columnOffset' = IF C19_HiddenToTheRight THEN columnOffset + 1
                                        ELSE columnOffset]_vars
    /\ [][leftArrow => columnOffset' = IF columnOffset > 0 THEN columnOffset - 1 ELSE 0]_vars
    /\ [](columnOffset >= 0 /\ columnOffset <= Len(otherCols))

\* a right arrow was refused with the last columns all shown, after others
\* had been accepted
C19_Witness ==
    /\ columnOffset >= 5
    /\ ~hasHiddenRight
    /\ terminalWidth = 100
    /\ settled

\* ------------------------------------------------------------------------
\* C20
\* ------------------------------------------------------------------------
\* the direction bit of a wheel button code: clear for wheel-up
C20_IsWheelUp(button) == ~bitSet(button, 1)

\* the selection one row up or down, clamped at the first and the last row
C20_Step(delta) == Max(0, Min(pagesLength - 1, selectedRowIndex + delta))

\* C20: a wheel notch moves the table selection by one row, up for wheel-up
\* and down for wheel-down, clamped at the first and last row, whatever
\* modifier bits (shift, alt, ctrl) the wheel button code carries.
C20_WheelStep ==
    [][\A button \in WheelCodes :
          mouseWheel(button) =>
              selectedRowIndex' = C20_Step(IF C20_IsWheelUp(button) THEN -1 ELSE 1)]_vars

\* computeScrollbar on its own: one call, with any parameters up to the bounds.
MaxTotalRows == 6
MaxTrackHeight == 5

ScrollbarInputs ==
    {ScrollbarParams(t, v, s, h) : t \in 0..MaxTotalRows, v \in 0..MaxTrackHeight,
                                   s \in 0..MaxTotalRows, h \in 0..MaxTrackHeight}

NextScrollbar ==
    scrollbarParams = NoCall /\ \E params \in ScrollbarInputs : callComputeScrollbar(params)

SpecScrollbar == InitEngineOnly /\ [][NextScrollbar]_vars

\* ------------------------------------------------------------------------
\* C21
\* ------------------------------------------------------------------------
\* computeScrollbar has been called
C21_Called == scrollbarParams # NoCall

\* C21: whenever totalRows <= visibleRows, computeScrollbar returns the thumb
\* that spans the whole track, thumbStart 0 and thumbEnd trackHeight, at any
\* scroll offset.
C21_FillsTrack ==
    (C21_Called /\ scrollbarParams.totalRows <= scrollbarParams.visibleRows) =>
        /\ scrollbarResult.thumbStart = 0
        /\ scrollbarResult.thumbEnd = scrollbarParams.trackHeight

\* all rows fit, and the call was made with a scroll offset that is not 0
C21_Witness ==
    /\ C21_Called
    /\ scrollbarParams.totalRows = 3
    /\ scrollbarParams.visibleRows = 4
    /\ scrollbarParams.scrollOffset = 2
    /\ scrollbarParams.trackHeight = 4
    /\ scrollbarResult.thumbEnd = 4

\* ------------------------------------------------------------------------
\* C22
\* ------------------------------------------------------------------------
\* C22: for non-negative integer inputs with trackHeight >= 1, the thumb
\* computeScrollbar returns is at least one cell long.
C22_MinimumThumb ==
    (C21_Called /\ scrollbarParams.trackHeight >= 1) =>
        scrollbarResult.thumbEnd - scrollbarResult.thumbStart >= 1

\* one visible row in six on a track of two cells: the proportional size
\* rounds to 0 and the thumb is one cell
C22_Witness ==
    /\ C21_Called
    /\ scrollbarParams.totalRows = 6
    /\ scrollbarParams.visibleRows = 1
    /\ scrollbarParams.trackHeight = 2
    /\ scrollbarResult.thumbEnd - scrollbarResult.thumbStart = 1

\* The pointer decoder on its own: one chunk, decoded by a direct call or
\* arriving on stdin while the table is shown.
ButtonCodes == 0..255
Columns == {1, 80}
Rows == {1, 20}

WellFormedInputs ==
    {MouseSequence(button, x, y, terminator) :
        button \in ButtonCodes, x \in Columns, y \in Rows, terminator \in {"M", "m"}}

\* a sequence cut short, with one token missing, or with one token replaced
SampleSequence == MouseSequence(68, 10, 5, "M")
Without(s, i) == SubSeq(s, 1, i - 1) \o SubSeq(s, i + 1, Len(s))
MalformedInputs ==
    {SubSeq(SampleSequence, 1, k) : k \in 0..8}
    \cup {Without(SampleSequence, i) : i \in 1..9}
    \cup {[SampleSequence EXCEPT ![i] = Ch("x")] : i \in 1..9}
    \cup {<<Ch("x")>>, <<Ch("ESC"), Ch("["), Ch("A")>>}

\* a well-formed sequence with other input around it
EmbeddedInputs ==
    {<<Ch("x")>> \o SampleSequence, SampleSequence \o <<Ch("x")>>,
     <<Ch("ESC"), Ch("["), Ch("<"), Ch("x")>> \o SampleSequence,
     SampleSequence \o MouseSequence(0, 1, 1, "m")}

MouseInputs == WellFormedInputs \cup MalformedInputs \cup EmbeddedInputs

NextMouse ==
    \/ tableEffects
    \/ mouseData = NoCall /\ \E data \in MouseInputs : callParseMouseEvent(data)
    \/ mouseData = NoCall /\ \E data \in MouseInputs : handleData(data)

SpecMouse == InitEngineOnly /\ [][NextMouse]_vars

\* the chunk that was decoded is exactly one well-formed pointer sequence
WellFormedAt(data, i) ==
    /\ i + 8 <= Len(data)
    /\ data[i + 3].c = "digits" /\ data[i + 5].c = "digits" /\ data[i + 7].c = "digits"
    /\ data[i + 8].c \in {"M", "m"}
    /\ SubSeq(data, i, i + 8)
         = MouseSequence(data[i + 3].n, data[i + 5].n, data[i + 7].n, data[i + 8].c)
C23_Decoded ==
    /\ mouseData # NoCall
    /\ Len(mouseData.data) = 9
    /\ WellFormedAt(mouseData.data, 1)
\* the bits of a button code 0-255
C23_Bits(code) ==
    CHOOSE r \in [base : 0..3, shift : {0, 1}, alt : {0, 1}, ctrl : {0, 1}, motion : {0, 1},
                  wheel : {0, 1}, high : {0, 1}] :
        code = r.base + 4 * r.shift + 8 * r.alt + 16 * r.ctrl + 32 * r.motion + 64 * r.wheel
                 + 128 * r.high
\* C23: for every button code 0-255, coordinates and terminator the decoded
\* event has shift, alt and ctrl equal to bits 2, 3 and 4 of the code; with
\* bit 6 set the type is wheel and the button is the raw code; otherwise the
\* button is bits 0-1 and the type is press for M and release for m; x and y
\* are the decoded column and row
C23_ModifiersAndButton ==
    C23_Decoded =>
        LET code == mouseData.data[4].n
            bits == C23_Bits(code)
        IN  /\ mouseEvent.modifiers
                 = [shift |-> bits.shift = 1, alt |-> bits.alt = 1, ctrl |-> bits.ctrl = 1]
            /\ mouseEvent.x = mouseData.data[6].n
            /\ mouseEvent.y = mouseData.data[8].n
            /\ IF bits.wheel = 1
               THEN mouseEvent.type = "wheel" /\ mouseEvent.button = code
               ELSE /\ mouseEvent.button = bits.base
                    /\ mouseEvent.type
                         = IF mouseData.data[9].c = "M" THEN "press" ELSE "release"
C23_Witness ==
    /\ C23_Decoded
    /\ mouseData.data[4].n = 94
    /\ mouseEvent.type = "wheel"
    /\ mouseEvent.button = 94
    /\ mouseEvent.modifiers = [shift |-> TRUE, alt |-> TRUE, ctrl |-> TRUE]
    /\ mouseEvent.x = 80

\* the chunk holds no well-formed pointer sequence
C24_NotWellFormed ==
    /\ mouseData # NoCall
    /\ \A i \in 1..Len(mouseData.data) : ~WellFormedAt(mouseData.data, i)
\* C24: for input that is not a well-formed pointer sequence the decoder
\* returns null (it does not throw) and no event is delivered to the app
C24_NullAndNothingDelivered ==
    C24_NotWellFormed => mouseEvent = null /\ delivered = <<>>
\* an input with the row missing has come in on stdin
C24_Witness ==
    /\ C24_NotWellFormed
    /\ isMouseSequence(mouseData.data)
    /\ Len(mouseData.data) = 8
    /\ mouseData.via = "stdin"
    /\ mouseEvent = null
    /\ delivered = <<>>

\* the sequence for a structured event: the raw code of a wheel event, or
\* the base button with the modifier bits, and the terminator of the type
C25_Encode(event) ==
    LET bit(b) == IF b THEN 1 ELSE 0
        code == IF event.type = "wheel" THEN event.button
                ELSE event.button + 4 * bit(event.modifiers.shift)
                       + 8 * bit(event.modifiers.alt) + 16 * bit(event.modifiers.ctrl)
    IN  MouseSequence(code, event.x, event.y, IF event.type = "release" THEN "m" ELSE "M")
\* C25: re-encoding the event decoded from a pointer sequence gives a sequence
\* that decodes to the same event, for every button code 0-255 and terminator
C25_RoundTrip ==
    C23_Decoded => parseMouseData(C25_Encode(mouseEvent)) = mouseEvent
\* a wheel release with the motion bit: the re-encoded sequence differs from
\* the one decoded
C25_Witness ==
    /\ C23_Decoded
    /\ mouseData.data[4].n = 100
    /\ mouseData.data[9].c = "m"
    /\ C25_Encode(mouseEvent) # mouseData.data
    /\ parseMouseData(C25_Encode(mouseEvent)) = mouseEvent

\* normalizeUrl and validateUrl on their own: one call on one input.
UrlHosts == {"example.com", "my-site.example.com", "exa_mple.com", "example site.com",
             "b(u-umlaut)cher.example"}
UrlPorts == {"", "8080", "443", "80"}
UrlPaths == {<<>>, <<"a">>, <<"a", "b">>, <<"a", "">>, <<"">>}
UrlInputs ==
    {UrlFull(ws, "none", "", "", <<>>, FALSE, "", "") : ws \in BOOLEAN}
    \cup {u \in {UrlFull(ws, scheme, host, port, path, slash, search, hash) :
                    ws \in BOOLEAN, scheme \in {"none", "http", "https"}, host \in UrlHosts,
                    port \in UrlPorts, path \in UrlPaths, slash \in BOOLEAN,
                    search \in {"", "?foo=bar"}, hash \in {"", "#section"}} :
             \* without a trailing slash the text does not end in an empty segment
             u.slash \/ u.path = <<>> \/ u.path[Len(u.path)] # ""}
    \cup {UrlFull(FALSE, "ftp", "example.com", "", path, slash, "", "") :
             path \in {<<>>, <<"a">>}, slash \in BOOLEAN}

NextUrl ==
    \/ urlCall = NoCall /\ \E input \in UrlInputs : callNormalizeUrl(input)
    \/ urlCall = NoCall /\ \E input \in UrlInputs : callValidateUrl(input)

SpecUrl == InitEngineOnly /\ [][NextUrl]_vars

C26_Normalized == urlCall # NoCall /\ urlCall.fn = "normalizeUrl"
\* the input has no host at all, or a host name with a character that is not
\* a letter, a digit, a dot or a hyphen
C26_BadHost(input) ==
    \/ input.host = ""
    \/ \E i \in 1..Len(hostChars(input.host)) :
          hostChars(input.host)[i] \notin {"alnum", "letter", ".", "-"}
\* the path as text: "/" before every segment, and the trailing slash
C26_Pathname(url) ==
    LET n == Len(url.path)
        tokens == [i \in 1..(2 * n) |-> IF i % 2 = 1 THEN "/" ELSE url.path[i \div 2]]
                    \o (IF url.slash \/ n = 0 THEN <<"/">> ELSE <<>>)
    IN  SelectSeq(tokens, LAMBDA t : t # "")
C26_OneSlashLess(pathname) ==
    IF Len(pathname) > 1 /\ pathname[Len(pathname)] = "/"
    THEN SubSeq(pathname, 1, Len(pathname) - 1)
    ELSE pathname
\* scheme, rejection, path, query string and fragment
C26_AllButPort ==
    /\ C26_Normalized =>
          LET input == urlCall.input
              href == urlResult.href
          IN  /\ C26_BadHost(input) => ~urlResult.ok
              /\ urlResult.ok =>
                    /\ href.scheme
                         = IF input.scheme \in {"http", "https"} THEN input.scheme ELSE "https"
                    /\ input.scheme # "ftp"
                          => C26_Pathname(href) = C26_OneSlashLess(C26_Pathname(input))
                    /\ href.search = input.search
                    /\ href.hash = input.hash
    /\ (urlCall # NoCall /\ urlCall.fn = "validateUrl")
          => (urlResult.valid <=> normalizeUrl(urlCall.input).ok)
MaxLoggerCalls == 6

NextLogger ==
    \/ /\ loggerCalls < MaxLoggerCalls
       /\ \E level \in DebugLevels, openOk \in BOOLEAN, writeOk \in BOOLEAN :
             initDebugLog(level, openOk, writeOk)
    \/ /\ loggerCalls < MaxLoggerCalls
       /\ \E level \in DebugLevels, writeOk \in BOOLEAN : writeDebugLog(level, writeOk)
    \/ /\ loggerCalls < MaxLoggerCalls
       /\ \E writeOk \in BOOLEAN, closeOk \in BOOLEAN : closeDebugLog(writeOk, closeOk)
    \/ loggerCalls < MaxLoggerCalls /\ isDebugActive

SpecLogger == InitEngineOnly /\ [][NextLogger]_vars

C27_Rank(level) ==
    IF level = "debug" THEN 0 ELSE IF level = "info" THEN 1 ELSE IF level = "warning" THEN 2
    ELSE 3
\* C27: isDebugActive() is true exactly from a successful initDebugLog until
\* the next closeDebugLog; initDebugLog while active neither reopens the file
\* nor changes the threshold; writeDebugLog writes only while active and only
\* for levels at or above the threshold set by that init; closeDebugLog when
\* inactive does nothing, and the file is closed at most once per init; no
\* call throws when opening or writing fails
C27_Lifecycle ==
    [][LET call == lastCall'
       IN  /\ call.op = "isDebugActive" => call.result = (session # "none")
           /\ (call.op = "initDebugLog" /\ session # "none")
                 => /\ ~call.opened
                    /\ currentLevel' = session
                    /\ session' = session
           /\ (call.op = "writeDebugLog" /\ call.wrote)
                 => session # "none" /\ C27_Rank(call.level) >= C27_Rank(session)
           /\ (call.op = "writeDebugLog" /\ session # "none"
                 /\ C27_Rank(call.level) >= C27_Rank(session)) => call.wrote
           /\ (call.op = "closeDebugLog" /\ session = "none")
                 => ~call.wrote /\ ~call.closed /\ UNCHANGED <<fd, currentLevel, logFile>>
           /\ call.closed => call.op = "closeDebugLog" /\ session # "none" /\ session' = "none"
           /\ ~call.threw
      ]_vars
\* after a failed init, a successful one at level info and a second init at
\* level debug, a debug line was left out and the closing separator failed
C27_Witness ==
    /\ lastCall # NoCall
    /\ lastCall.op = "closeDebugLog"
    /\ lastCall.failed
    /\ ~lastCall.closed
    /\ logFile = [opens |-> 1, writes |-> 2, closes |-> 0]
    /\ loggerCalls = 4
    /\ fd = "null"

\* the sum of the counts of a distribution
RECURSIVE C28_Sum(_, _)
C28_Sum(counts, keys) ==
    IF keys = {} THEN 0
    ELSE LET k == CHOOSE k \in keys : TRUE
         IN  counts[k] + C28_Sum(counts, keys \ {k})
C28_Total(counts) == C28_Sum(counts, DOMAIN counts)
\* the per-MIME-type half of C28
C28_MimeTypesAgree == C28_Total(stats.contentTypes) = stats.pagesCrawled
\* C28: after any sequence of completed fetches and failures, the per-status-
\* class counts sum to pagesCrawled and the per-MIME-type counts sum to
\* pagesCrawled
C28_CountedOncePerDistribution ==
    /\ C28_Total(stats.statusCodes) = stats.pagesCrawled
    /\ C28_MimeTypesAgree

\* computeScrollbar was called with more rows than are visible, a track of at
\* least one cell and a scroll offset from 0 to totalRows - visibleRows
C29_InRange(params) ==
    /\ params.totalRows > params.visibleRows
    /\ params.trackHeight >= 1
    /\ 0 <= params.scrollOffset
    /\ params.scrollOffset <= params.totalRows - params.visibleRows
C29_InsideTrack(params, result) ==
    /\ 0 <= result.thumbStart
    /\ result.thumbEnd <= params.trackHeight
    /\ params.scrollOffset = 0 => result.thumbStart = 0
    /\ params.scrollOffset = params.totalRows - params.visibleRows
          => result.thumbEnd = params.trackHeight
\* the first half of C29, on computeScrollbar alone: for such parameters the
\* thumb lies inside the track, starts at 0 for offset 0 and ends at
\* trackHeight for the last offset
C29_ThumbInsideTrack ==
    (C21_Called /\ C29_InRange(scrollbarParams))
        => C29_InsideTrack(scrollbarParams, scrollbarResult)
\* C29: the thumb lies inside the track for parameters in range, and the
\* table always calls computeScrollbar with a scroll offset in that range,
\* also after the number of visible rows has changed
C29_TableCallsInRange ==
    (settled /\ scrollbarRendered)
        => /\ C29_InRange(renderedScrollbarParams)
           /\ C29_InsideTrack(renderedScrollbarParams,
                              computeScrollbar(renderedScrollbarParams))

\* The options panel on its own: opened with the default options and either
\* value of the render-JS flag, then any keys.
MaxKeys == 8

OptionsProps ==
    {[maxConcurrency |-> 5, requestDelayMs |-> 200, maxPages |-> 1000, maxDepth |-> 10,
      respectRobotsTxt |-> TRUE, renderJs |-> renderJs, userAgent |-> <<"b", "o", "t">>] :
        renderJs \in BOOLEAN}

KeyNames == {"escape", "return", "upArrow", "downArrow", "backspace"}
TypedChars == {"1", "x"}

NextOptions ==
    \/ \E props \in OptionsProps : mountOptions(props)
    \/ keyCount < MaxKeys /\ \E key \in KeyNames : useInputOptions(<<>>, key)
    \/ keyCount < MaxKeys /\ \E c \in TypedChars : useInputOptions(<<c>>, "none")

SpecOptions == InitEngineOnly /\ [][NextOptions]_vars

\* C30: no sequence of key presses in the options panel changes the render-
\* JS flag: the panel's options, and the options handed to onClose, hold the
\* value the panel was opened with; only the number and text fields are ever
\* being edited
C30_RenderJsUnchanged ==
    options # NoCall =>
        /\ currentOptions.renderJs = options.renderJs
        /\ \A i \in 1..Len(onCloseCalls) : onCloseCalls[i].renderJs = options.renderJs
        /\ isEditing => FIELDS[selectedIndex + 1].type \in {"number", "text"}
\* Enter, 1, Enter made the concurrency limit 51; Up, Up went to the flag and
\* Enter was pressed on it
C30_Witness ==
    /\ options # NoCall
    /\ options.renderJs
    /\ currentOptions.maxConcurrency = 51
    /\ FIELDS[selectedIndex + 1].key = "renderJs"
    /\ lastKey = [input |-> <<>>, key |-> "return"]
    /\ ~isEditing
    /\ currentOptions.renderJs

\* ------------------------------------------------------------------------
\* C31
\* ------------------------------------------------------------------------
\* C31: in every reachable engine state isPaused implies isRunning: after
\* stop() or abort(), also an abort() issued while paused, the engine never
\* reports isPaused = true
C31_PausedOnlyWhileRunning == isPaused => isRunning

\* ------------------------------------------------------------------------
\* C32
\* ------------------------------------------------------------------------
\* C32: once abort() has returned, or once the completion callback has fired,
\* no stats-update callback is delivered any more, also when a stats tick was
\* waiting for the queue counters as the session ended
C32_NoStatsAfterEnd ==
    [][(abortCalled \/ completeCalls > 0)
          => ~(\E pendingRequestCount \in PendingCounts : statsDeliver(pendingRequestCount))]_vars

\* ---------------------------------------------------------------------------
\* The App's options panel while crawling: key 'o' opens it, Escape in the
\* panel calls onClose(currentOptions), and the engine effect lists options
\* among its dependencies.

\* the options objects the panel may hand back in one run
MaxOptionsCloses == 1
\* page records and counted errors of one engine while the panel is modelled
MaxPanelPages == 1
MaxPanelErrors == 1

\* useInput, input === 'o' (isActive: state !== 'prompting' && !optionsOpen)
keyO ==
    /\ mounted
    /\ state # "prompting"
    /\ ~optionsOpen
    /\ optionsOpen' = TRUE
    /\ UNCHANGED <<appOptions, effectOptions, engineRestarts>>
    /\ UNCHANGED besidesPanel

\* onClose={(updated) => { setOptions(updated); setOptionsOpen(false); }}: updated
\* is the panel's own copy ({ ...options }), a new object also without any edit
optionsOnClose ==
    /\ mounted
    /\ optionsOpen
    /\ appOptions < MaxOptionsCloses
    /\ appOptions' = appOptions + 1
    /\ optionsOpen' = FALSE
    /\ UNCHANGED <<effectOptions, engineRestarts>>
    /\ UNCHANGED besidesPanel

\* new CrawlEngine(options, callbacks) followed by start(targetUrl), up to its
\* first await: every field is the new instance's
newEngineStarted ==
    /\ pages' = <<>>
    /\ isPaused' = FALSE
    /\ pausedAt' = 0
    /\ stopPc' = "idle"
    /\ tickPc' = "idle"
    /\ IF normalizeUrl(targetUrl).ok
       THEN /\ stats' = [initialStats EXCEPT !.startTime = now]
            /\ isRunning' = TRUE
            /\ crawler' = "live"
            /\ statsInterval' = TRUE
            /\ pool' = "running"
            /\ signal' = "run"
            /\ startPc' = "awaitRun"
       ELSE /\ stats' = initialStats
            /\ isRunning' = FALSE
            /\ crawler' = "null"
            /\ statsInterval' = FALSE
            /\ pool' = "idle"
            /\ signal' = "none"
            /\ startPc' = "rejected"

\* the engine effect when only its options dependency has changed: the cleanup
\* of the previous run (abort the engine held, drop the reference), then the
\* body again, which finds engineRef.current null
optionsEffect ==
    /\ mounted
    /\ effectOptions # appOptions
    /\ effectOptions' = appOptions
    /\ IF state = "crawling" /\ targetUrl.kind # "undefined"
       THEN /\ engineRef' = TRUE
            /\ abortCalled' = (abortCalled \/ engineRef)
            /\ engineRestarts' = IF engineRef THEN engineRestarts + 1 ELSE engineRestarts
            /\ newEngineStarted
            /\ pausedTotal' = 0
            /\ snapAt' = 0
            /\ snapInPause' = FALSE
            /\ handled' = <<>>
            /\ snapMaps' = [statusCodes |-> initialStats.statusCodes,
                            contentTypes |-> initialStats.contentTypes]
       ELSE /\ engineRef' = FALSE
            /\ IF engineRef THEN abortOp ELSE UNCHANGED abortVars
            /\ UNCHANGED <<pages, isPaused, pausedAt, stats, startPc, stopPc, tickPc,
                         pausedTotal, snapAt, snapInPause, handled, snapMaps,
                         engineRestarts>>
    /\ UNCHANGED <<now, state, pageBuffer, appPages, pagesUpdates, flushInterval, uiPaused,
                 uiStats, mounted, completeCalls, errorCalls, pageCalls, logCalls,
                 seoTrace, optionsOpen, appOptions>>
    /\ UNCHANGED <<promptVars, tableVars, scrollbarVars, mouseVars, urlVars, loggerVars,
                 optionsVars, barVars>>

\* The App with its options panel: the keys of the main view are inactive
\* while the panel is open
NextPanel ==
    \/ \E value \in PromptValues : promptReturn(value)
    \/ engineEffect
    \/ engineEffectCleanup
    \/ flushTick
    \/ applyPagesUpdate
    \/ ~optionsOpen /\ keyP
    \/ keyO
    \/ optionsOnClose
    \/ optionsEffect
    \/ handleShutdown
    \/ SchedulerFinish
    \/ startAfterRun
    \/ \E res \in {"queue", "none", "throws"} : stopAfterQueue(res)
    \/ \E ok \in BOOLEAN : stopAfterTeardown(ok)
    \/ \E resp \in OneResponse : Len(pages) < MaxPanelPages /\ requestHandler(resp)
    \/ \E error \in SampleErrors :
          Len(pages) < MaxPanelPages /\ stats.errors < MaxPanelErrors
             /\ failedRequestHandler(error)

SpecPanel == Init /\ [][NextPanel]_vars

\* C33: while a crawl is running, opening the options panel, closing it and the
\* effects that follow leave the engine alone: the App keeps holding the same
\* engine, abort() is not called on it, it keeps running with its page records,
\* and no further engine is constructed for the target.
C33_CrawlUndisturbed ==
    [][(state = "crawling" /\ engineRef /\ isRunning
          /\ (keyO \/ optionsOnClose \/ optionsEffect))
         => (/\ engineRef'
             /\ abortCalled' = abortCalled
             /\ engineRestarts' = engineRestarts
             /\ UNCHANGED <<isRunning, crawler, pages, startPc>>)]_vars

\* ---------------------------------------------------------------------------
\* The App until the crawl ends on its own: no shutdown is requested. Awaited
\* promises settle and timers fire, so the effect, the continuations of
\* start() and stop(), the flush timer and the queued updates all get to run.
NextLive ==
    \/ \E value \in PromptValues : promptReturn(value)
    \/ engineEffect
    \/ engineEffectCleanup
    \/ flushTick
    \/ applyPagesUpdate
    \/ keyP
    \/ SchedulerFinish
    \/ startAfterRun
    \/ \E res \in {"queue", "none", "throws"} : stopAfterQueue(res)
    \/ \E ok \in BOOLEAN : stopAfterTeardown(ok)
    \/ \E resp \in OneResponse : Len(pages) < MaxPages /\ requestHandler(resp)
    \/ \E error \in SampleErrors :
          Len(pages) < MaxPages /\ stats.errors < MaxErrors /\ failedRequestHandler(error)

Fairness ==
    /\ WF_vars(engineEffect)
    /\ WF_vars(engineEffectCleanup)
    /\ WF_vars(flushTick)
    /\ WF_vars(applyPagesUpdate)
    /\ WF_vars(startAfterRun)
    /\ WF_vars(\E res \in {"queue", "none", "throws"} : stopAfterQueue(res))
    /\ WF_vars(\E ok \in BOOLEAN : stopAfterTeardown(ok))

SpecLive == Init /\ [][NextLive]_vars /\ Fairness

\* the scheduler's run ended on its own (nobody called abort), start() went on
\* to stop(), and stop() has returned after the teardown resolved or threw
runEndedAndStopReturned ==
    /\ ~abortCalled
    /\ pool # "aborted"
    /\ startPc = "done"
    /\ stopPc = "idle"

\* C34: once the scheduler's run has ended on its own and stop() has returned,
\* the App eventually is in the finished state, for every number of pages
\* processed and errors counted.
C34_EventuallyFinished == runEndedAndStopReturned ~> (state = "finished")

\* C35: after a 'p' key press, after the completion callback has fired and
\* after the effect that follows an options change, an engine held by the App
\* has its isPaused flag equal to the paused indicator of the UI.
C35_IndicatorMatchesEngine ==
    [][(keyP \/ optionsEffect \/ completeCalls' # completeCalls)
         => (engineRef' => uiPaused' = isPaused')]_vars

\* ---------------------------------------------------------------------------
\* The status bar under the pointer (App.handleMouse, events other than wheel)

\* the pieces of hintsText, which " | " joins; the two arrow pairs are written
\* "^v" and "<>", of the same length
hintLabels(paused) ==
    <<"^v Scroll", "<> Columns", IF paused THEN "p Resume" ELSE "p Pause", "c Console",
      "o Options", "e Export", "q Quit">>

RECURSIVE lengthBefore(_, _)
\* the number of characters of hintsText before its k-th piece
lengthBefore(labels, k) ==
    IF k <= 1 THEN 0 ELSE lengthBefore(labels, k - 1) + Len(labels[k - 1]) + Len(" | ")

\* hintsText.indexOf(label); no piece occurs earlier than at its own place,
\* and "p " occurs first where the pause piece starts
indexOf(paused, label) ==
    LET labels == hintLabels(paused)
        k == CHOOSE i \in 1..Len(labels) : labels[i] = label
    IN  lengthBefore(labels, k)

pauseIndex(paused) == indexOf(paused, IF paused THEN "p Resume" ELSE "p Pause")

\* (stdout?.rows || 24) - 2, the Table's availableHeight being rows - 6
statusBarY == (availableHeight + 6) - 2

StatusBarActions == {"pause", "console", "options", "export", "quit"}

\* the branch of handleMouse the event enters and that has an effect
fires(action, event) ==
    /\ state = "crawling"
    /\ event.type = "press"
    /\ event.y >= statusBarY
    /\ CASE action = "pause" ->
              /\ event.x >= pauseIndex(uiPaused) + 30
              /\ event.x <= pauseIndex(uiPaused) + 50
              /\ engineRef
         [] action = "console" ->
              /\ event.x >= indexOf(uiPaused, "c Console") + 30
              /\ event.x <= indexOf(uiPaused, "c Console") + 50
         [] action = "options" ->
              /\ event.x >= indexOf(uiPaused, "o Options") + 30
              /\ event.x <= indexOf(uiPaused, "o Options") + 50
         [] action = "export" ->
              /\ event.x >= indexOf(uiPaused, "e Export") + 30
              /\ event.x <= indexOf(uiPaused, "e Export") + 50
              /\ Len(appPages) > 0
         [] action = "quit" -> event.x >= indexOf(uiPaused, "q Quit") + 30

\* useMouse's handleData with App.handleMouse as onMouseEvent (mouseActive:
\* state !== 'prompting' && !optionsOpen), for a well-formed report that is
\* not a wheel notch
statusBarReport(button, x, y, terminator) ==
    /\ mounted
    /\ state # "prompting"
    /\ ~optionsOpen
    /\ ~bitSet(button, 64)
    /\ LET event == parseMouseEvent(button, x, y, terminator)
           fired == {action \in StatusBarActions : fires(action, event)}
       IN  /\ barReport' = [button |-> button, x |-> x, y |-> y, terminator |-> terminator]
           /\ barFired' = fired
           /\ IF "pause" \in fired
              THEN /\ togglePauseOp
                   /\ uiPaused' = isPaused'
                   /\ UNCHANGED <<isRunning, statsInterval, crawler, abortCalled, mounted,
                                flushInterval, engineRef>>
              ELSE IF "quit" \in fired
              THEN /\ IF engineRef THEN abortOp ELSE UNCHANGED abortVars
                   /\ mounted' = FALSE
                   /\ flushInterval' = FALSE
                   /\ engineRef' = FALSE
                   /\ UNCHANGED <<isPaused, pausedAt, stats, snapInPause, uiPaused>>
              ELSE /\ signal' = "none"
                   /\ UNCHANGED <<isPaused, pausedAt, stats, pool, snapInPause, uiPaused,
                                isRunning, statsInterval, crawler, abortCalled, mounted,
                                flushInterval, engineRef>>
           /\ consoleOpen' = IF "console" \in fired THEN ~consoleOpen ELSE consoleOpen
           /\ optionsOpen' = ("options" \in fired \/ optionsOpen)
           /\ exportCalls' = IF "export" \in fired THEN exportCalls + 1 ELSE exportCalls
    /\ UNCHANGED <<pages, now, startPc, stopPc, tickPc, state, pageBuffer, appPages,
                 pagesUpdates, uiStats, completeCalls, errorCalls, pageCalls,
                 pausedTotal, snapAt, logCalls, handled, seoTrace, snapMaps>>
    /\ UNCHANGED <<promptVars, tableVars, scrollbarVars, mouseVars, urlVars, loggerVars,
                 optionsVars, appOptions, effectOptions, engineRestarts>>

\* button codes of a report: left and right button, the same with the motion
\* flag (32), motion with no button held (35), and left button with ctrl
BarButtons == {0, 2, 32, 34, 35, 16}
\* columns from left of the first hit range to right of where the last begins
BarColumns == 53..112
\* the row above the status bar, its first row and its last
BarRows == {statusBarY - 1, statusBarY, statusBarY + 1}

\* The App up to one pointer report on the status-bar path, observed as that
\* report has been handled
NextBar ==
    \/ barReport = NoCall /\ \E value \in PromptValues : promptReturn(value)
    \/ barReport = NoCall /\ engineEffect
    \/ barReport = NoCall /\ flushTick
    \/ barReport = NoCall /\ applyPagesUpdate
    \/ barReport = NoCall /\ keyP
    \/ barReport = NoCall /\ SchedulerFinish
    \/ barReport = NoCall /\ startAfterRun
    \/ barReport = NoCall /\ \E res \in {"queue", "none", "throws"} : stopAfterQueue(res)
    \/ barReport = NoCall /\ \E ok \in BOOLEAN : stopAfterTeardown(ok)
    \/ barReport = NoCall /\ \E resp \in OneResponse :
          Len(pages) < MaxPanelPages /\ requestHandler(resp)
    \/ barReport = NoCall /\ \E button \in BarButtons, x \in BarColumns, y \in BarRows,
                                terminator \in {"M", "m"} :
          statusBarReport(button, x, y, terminator)

SpecBar == Init /\ [][NextBar]_vars

\* C36: a report that fires a status-bar action is a button press: it ends in
\* "M" and its button code has the motion flag (32) clear; motion reports and
\* releases fire nothing.
C36_OnlyPressesFire ==
    (barReport # NoCall /\ barFired # {})
        => (barReport.terminator = "M" /\ ~bitSet(barReport.button, 32))

\* C37: one report fires at most one status-bar action, whatever its column.
C37_AtMostOneAction == barReport # NoCall => Cardinality(barFired) <= 1

\* C38: every page record the engine holds, from the HTML path, the non-HTML
\* path or the content-type rejection path, is indexable exactly when its
\* indexabilityReason is null.
C38_ReasonIffNotIndexable ==
    \A i \in 1..Len(pages) : pages[i].isIndexable = (pages[i].indexabilityReason = "null")

\* an indexable HTML page without a reason next to a rejected PDF with one
C38_Witness ==
    /\ Len(pages) = 2
    /\ pages[1].isIndexable
    /\ pages[1].indexabilityReason = "null"
    /\ isHtmlType(pages[1].contentType)
    /\ ~pages[2].isIndexable
    /\ pages[2].contentType = "application/pdf"
    /\ pages[2].indexabilityReason = "non-HTML content"

\* rows have arrived in the last render and its effects have not run yet:
\* pages.length is the only dependency that changed
rowsJustArrived ==
    /\ scrollDeps = scrollDepsNow
    /\ followDeps # <<>>
    /\ followDeps[1] = autoFollow
    /\ followDeps[2] < pagesLength

\* C39: while auto-follow is off, neither the render in which new rows arrive
\* nor the effects that run after it change the selected row index or the
\* scroll offset.
C39_RowsLeaveSelection ==
    [][(/\ ~autoFollow
        /\ \/ \E n \in 1..MaxRows : rowsArrive(n)
           \/ rowsJustArrived /\ tableEffects)
         => UNCHANGED <<selectedRowIndex, scrollOffset>>]_vars

\* rows arrived below the selection with auto-follow off, effects pending
C39_Witness ==
    /\ ~autoFollow
    /\ rowsJustArrived
    /\ followDeps[2] > 0
    /\ selectedRowIndex < followDeps[2] - 1

\* C40: normalizing a URL that normalizeUrl returned gives that URL again, so
\* the URL the prompt submits and the URL start() crawls are the same.
C40_Idempotent ==
    (C26_Normalized /\ urlResult.ok) => normalizeUrl(urlResult.href) = urlResult

====
